---- MODULE Spec2Model ----
(***************************************************************************)
(* Model of the automatic memory-extraction pipeline of                    *)
(* modules/services/open-webui-functions/auto_memory_filter.py (class      *)
(* Filter).                                                                *)
(*                                                                         *)
(* The filter runs on one asyncio event loop, so code between two awaits   *)
(* that really suspend is atomic.  Every action below is one such segment  *)
(* of a coroutine: it starts where the coroutine is resumed and runs to    *)
(* the next suspension point or to the return.  Suspension points are the  *)
(* awaits of host/network coroutines (__event_emitter__, the HTTP request  *)
(* of _query_llm, query_memory, add_memory, asyncio.sleep); the sqlite3    *)
(* calls of _save_memory_to_db and _get_user_id_for_chat are synchronous.  *)
(*                                                                         *)
(* log[i] is a history variable: the calls slot i made to its              *)
(* collaborators (extractor, adapters, status sink, task spawner), in      *)
(* order.                                                                  *)
(*                                                                         *)
(* The module also models the manifold pipe of                             *)
(* modules/services/open-webui-functions/openrouter_zdr_pipe.py (class     *)
(* Pipe), a synchronous object of its own: its methods run to completion,  *)
(* one action each, under the specification PipeSpec.                      *)
(***************************************************************************)
EXTENDS Integers, Sequences, FiniteSets, TLC

VARIABLES
    valves,                 \* Filter.valves: enabled, auto_save_user
    DIRECT_DB_MODE,         \* module flag: the rich memory API failed to import
    _warned_direct_mode,    \* Filter._warned_direct_mode
    chat,                   \* the host's chat table: chat id -> user id ("" = no row)
    memory,                 \* the memory table, a sequence of rows
    call,                   \* per slot: the frame of an outlet / process_memories call
    task,                   \* per slot: the frame of the background task it spawned
    log,                    \* per slot: history of collaborator calls
    now,                    \* the last reading of int(time.time())
    connections,            \* sqlite3 connections of the process that are open
    pipe_valves,            \* Pipe.valves: OPENROUTER_API_KEY, ENABLE_ZDR_ENFORCEMENT
    OPENAI_API_KEY,         \* the environment variable ("" = unset)
    _zdr_cache,             \* Pipe._zdr_cache
    _zdr_cache_time,        \* Pipe._zdr_cache_time
    wall,                   \* what time.time() returns
    fetched,                \* history: the last fetch of the ZDR list that succeeded
    last_call               \* history: the last call of a method of the pipe

filterVars ==
    <<valves, DIRECT_DB_MODE, _warned_direct_mode, chat, memory, call, task, log,
      now, connections>>

pipeVars ==
    <<pipe_valves, OPENAI_API_KEY, _zdr_cache, _zdr_cache_time, wall, fetched,
      last_call>>

vars == <<filterVars, pipeVars>>

\* ------------------------------------------------------------------ bounds
MaxMsgs == 2        \* longest turn list of an event
MaxFacts == 2       \* longest list the extractor answers with
MaxDistances == 2   \* most neighbours a query_memory answer carries
MaxRecords == 3     \* rows the memory table holds before the store is full
MaxTime == 1        \* seconds the clock advances in a run
MaxConnections == 2 \* connections left open before the collector has to run

\* ---------------------------------------------------------- program constants
\* Valves.related_memories_dist, default 0.75, in hundredths.
related_memories_dist == 75

\* ------------------------------------------------------------------- values
None == "None"

\* Outlet calls the host has in flight at once; each may spawn one task.
Slots == {1}

\* A turn: its role and its content.  The filter reads the content of
\* user-authored turns only, so the assistant's turns all carry one text.
\* The body comes from the host's client, so an element of the turn list
\* may also be something that is not a dict (it has no .get).
Contents == {"", "I love hiking"}
NotADict == [role |-> "<not a dict>", content |-> ""]
Messages ==
    [role : {"user"}, content : Contents]
    \cup {[role |-> "assistant", content |-> "Nice!"], NotADict}
is_dict(msg) == msg # NotADict
MessageLists == UNION {[1..n -> Messages] : n \in 0..MaxMsgs}

ChatIds == {"chat-1"}
UserIds == {"user-1"}

\* The chat table the host writes: chat-1 belongs to user-1.  The host
\* commits the row on its own schedule, so a lookup may come before it.
ChatTable == [c \in ChatIds |-> "user-1"]

\* The event body: None, or a dict that may hold "chat_id" and "messages".
Body(hasc, c, hasm, m) ==
    [none |-> FALSE, has_chat_id |-> hasc, chat_id |-> c,
     has_messages |-> hasm, messages |-> m]
NoBody ==
    [none |-> TRUE, has_chat_id |-> FALSE, chat_id |-> "",
     has_messages |-> FALSE, messages |-> <<>>]
Bodies ==
    {NoBody, Body(FALSE, "", FALSE, <<>>)}
    \cup {Body(TRUE, c, FALSE, <<>>) : c \in ChatIds}
    \cup {Body(FALSE, "", TRUE, m) : m \in MessageLists}
    \cup {Body(TRUE, c, TRUE, m) : c \in ChatIds, m \in MessageLists}

\* The user dict of an event: None, or a dict with an optional "id" and the
\* per-user valves (UserValves: enabled, show_status).
NoUser ==
    [none |-> TRUE, has_id |-> FALSE, id |-> "", enabled |-> TRUE,
     show_status |-> TRUE]
UserDicts ==
    {NoUser}
    \cup [none : {FALSE}, has_id : {TRUE}, id : UserIds,
          enabled : BOOLEAN, show_status : BOOLEAN]
    \cup [none : {FALSE}, has_id : {FALSE}, id : {""},
          enabled : {TRUE}, show_status : {TRUE}]

Requests == {None, "request"}
Emitters == {None, "emitter"}

\* One element of a parsed list: a str, or something else (an int, a dict).
\* A str element is a fact, the empty string, or a string with a lone
\* surrogate (the literal "\ud800" evaluates to one), which is a str that
\* cannot be encoded as UTF-8.
LoneSurrogate == "<lone surrogate>"
FactTexts == {"User enjoys hiking", "", LoneSurrogate}
Items == [type : {"str"}, text : FactTexts] \cup {[type |-> "int", text |-> "1"]}
ItemLists == UNION {[1..n -> Items] : n \in 0..MaxFacts}

\* What ast.literal_eval does with a text: raises, or returns a value.
EvalResults ==
    [kind : {"SyntaxError", "ValueError", "TypeError", "tuple"}, items : {<<>>}]
    \cup [kind : {"list"}, items : ItemLists]

\* What the extractor hands back: a str, described by what the code asks of
\* it (startswith("["), endswith("]"), ast.literal_eval), or None when the
\* completion's content is null.
NoneOutput ==
    [type |-> "NoneType", startswith |-> FALSE, endswith |-> FALSE,
     eval |-> [kind |-> "SyntaxError", items |-> <<>>]]
\* Texts that lack a bracket at one end: prose, a truncated list, or a
\* list with white space around it (which ast.literal_eval still parses).
Unbracketed ==
    {m \in [type : {"str"}, startswith : BOOLEAN, endswith : BOOLEAN,
            eval : {[kind |-> "list",
                     items |-> <<[type |-> "str", text |-> "User enjoys hiking"]>>]}] :
        ~(m.startswith /\ m.endswith)}
    \cup {[type |-> "str", startswith |-> FALSE, endswith |-> FALSE,
           eval |-> [kind |-> "SyntaxError", items |-> <<>>]]}
RawOutputs ==
    [type : {"str"}, startswith : {TRUE}, endswith : {TRUE}, eval : EvalResults]
    \cup Unbracketed
    \cup {NoneOutput}

\* The canonical empty-list marker "[]".
EmptyListMarker ==
    [type |-> "str", startswith |-> TRUE, endswith |-> TRUE,
     eval |-> [kind |-> "list", items |-> <<>>]]

\* How the HTTP request of _query_llm ends: a status of 400 or more, a
\* payload without choices, an exception, or a payload whose first choice
\* has a content.
LlmFailures ==
    {"401", "429", "500", "no choices", "ClientError", "TimeoutError",
     "KeyError", "Exception"}
LlmResponses ==
    {[outcome |-> "ok", content |-> c] : c \in RawOutputs}
    \cup {[outcome |-> k, content |-> NoneOutput] : k \in LlmFailures}

\* The local variable memories before it is assigned.
Unbound ==
    [type |-> "unbound", startswith |-> FALSE, endswith |-> FALSE,
     eval |-> [kind |-> "SyntaxError", items |-> <<>>]]

\* Distances of a query_memory answer, in hundredths.
Distances == {74, 75, 76}
DistanceLists == UNION {[1..n -> Distances] : n \in 0..MaxDistances}

\* How the await of query_memory ends: it raises, or returns `related`.
\*   falsy         None or an empty result
\*   short         list(related) has fewer than 4 fields
\*   no_distances  related_list[3][1] is falsy
\*   bad_shape     related_list[3] or related_list[3][1] is not the
\*                 sequence the code indexes (a non-list where a list is
\*                 expected): indexing raises TypeError / IndexError
\*   distances     related_list[3][1][0] is the list of distances (it may
\*                 be empty: no neighbour)
QueryResults ==
    [kind : {"raise_structural", "raise_other", "falsy", "short",
             "no_distances", "bad_shape"}, distances : {<<>>}]
    \cup [kind : {"distances"}, distances : DistanceLists]

AddResults == {"ok", "raise"}
\* How an await of __event_emitter__ ends.
EmitResults == {"ok", "raise"}
\* What the sqlite3 calls of _save_memory_to_db do with a content: return,
\* or raise one of the sqlite3 errors; binding a content with a lone
\* surrogate raises UnicodeEncodeError, which is no sqlite3.Error, unless
\* sqlite3.connect has failed before.
DbOutcomes(content) ==
    IF content = LoneSurrogate
    THEN {"unable to open", "UnicodeEncodeError"}
    ELSE {"ok", "IntegrityError", "OperationalError", "Error", "unable to open"}
LookupResults == {"UserModel", None, "raise"}
\* What sqlite3 does in _get_user_id_for_chat: the row is read, there is no
\* row (yet), or an error is raised.
ResolveResults == {"ok", "no row", "sqlite3.Error"}

\* ------------------------------------------------------------ history
Ev(op, by, text, uid, n, m) ==
    [op |-> op, by |-> by, text |-> text, user_id |-> uid, n |-> n, m |-> m]

\* A collaborator failed (raised, or answered with an error) in a call of `by`.
Fault(by, what) == Ev("fault", by, what, "", 0, 0)

\* ------------------------------------------------------------ capabilities
\* The import block binds all of add_memory, query_memory and Users, or none.
add_memory == ~DIRECT_DB_MODE
query_memory == ~DIRECT_DB_MODE
Users == ~DIRECT_DB_MODE

\* ------------------------------------------------------------ frames
NoResult == [set |-> FALSE, success |-> FALSE, saved |-> 0, failed |-> 0]
Result(success, saved, failed) ==
    [set |-> TRUE, success |-> success, saved |-> saved, failed |-> failed]

\* The frame of one call: of outlet (entry "outlet"), or of process_memories
\* called on its own (entry "process_memories").  user_obj, request and
\* user_id are process_memories' arguments user, request and user_id.
IdleCall ==
    [pc |-> "idle", entry |-> "", body |-> NoBody, emitter |-> None,
     user |-> NoUser, request |-> None, user_obj |-> None, user_id |-> "",
     memories |-> Unbound, idx |-> 0, saved |-> 0, failed |-> 0,
     returned |-> FALSE, raised |-> FALSE, value |-> NoBody,
     result |-> NoResult]

\* The frame of one background task (_safe_process_completed_chat).
IdleTask ==
    [pc |-> "idle", chat_id |-> "", messages |-> <<>>, user_id |-> "",
     error |-> "", content |-> "", memories |-> Unbound, raised |-> FALSE]

\* ------------------------------------------------------------ Fact Extractor
\* An extractor that hands back whatever content it has, failure or not.
_query_llm_passthrough(response) == response.content

\* Filter._query_llm: the content of the first choice, or "[]".
_query_llm(response) ==
    IF response.outcome = "ok" THEN response.content ELSE EmptyListMarker

identify_memories(response) == _query_llm(response)

\* ------------------------------------------------------------ List Validator
literal_eval(memories) == memories.eval

isinstance_str(item) == item.type = "str"

all_str(parsed) == \A k \in 1..Len(parsed) : isinstance_str(parsed[k])

\* A validator that does not look at the elements of the list.
_is_valid_memory_list_any_items(memories) ==
    IF memories.type # "str" THEN "raise"
    ELSE IF ~(memories.startswith /\ memories.endswith) THEN "False"
    ELSE LET parsed == literal_eval(memories) IN
         IF parsed.kind \in {"SyntaxError", "ValueError"} THEN "False"
         ELSE IF parsed.kind = "TypeError" THEN "raise"
         ELSE IF parsed.kind # "list" THEN "False"
         ELSE IF parsed.items = <<>> THEN "False"
         ELSE "True"

\* Filter._is_valid_memory_list: "True", "False", or "raise" when an
\* exception leaves the method (memories is not a str; ast.literal_eval
\* raises something other than SyntaxError / ValueError).
_is_valid_memory_list(memories) ==
    IF memories.type # "str" THEN "raise"
    ELSE IF ~(memories.startswith /\ memories.endswith) THEN "False"
    ELSE LET parsed == literal_eval(memories) IN
         IF parsed.kind \in {"SyntaxError", "ValueError"} THEN "False"
         ELSE IF parsed.kind = "TypeError" THEN "raise"
         ELSE IF parsed.kind # "list" THEN "False"
         ELSE IF parsed.items = <<>> THEN "False"
         ELSE IF ~all_str(parsed.items) THEN "False"
         ELSE "True"

\* ------------------------------------------------------------ Direct Store Adapter
\* A row whose id is not fresh.
Row_fixed_id(id, user_id, content, current_time) ==
    [id |-> 1, user_id |-> user_id, content |-> content,
     created_at |-> current_time, updated_at |-> current_time]

\* Filter._save_memory_to_db: the row it inserts when sqlite3 raises nothing.
Row(id, user_id, content, current_time) ==
    [id |-> id, user_id |-> user_id, content |-> content,
     created_at |-> current_time, updated_at |-> current_time]

\* The memory table as the filter finds it: the host's table, with a row
\* stored earlier for user-1.
HostRows == <<Row(1, "user-1", "User enjoys hiking", 0)>>

\* A store that replaces the rows that have the content of a new row.
Insert_or_replace(table, rows) ==
    SelectSeq(table, LAMBDA old :
        \A k \in 1..Len(rows) : rows[k].content # old.content) \o rows

\* A store that skips a row when the table holds its user_id and content.
Insert_if_new(table, rows) ==
    table \o SelectSeq(rows, LAMBDA r :
        \A k \in 1..Len(table) :
            table[k].user_id # r.user_id \/ table[k].content # r.content)

\* INSERT INTO memory ... and commit, for the rows of one segment.
Insert(table, rows) == table \o rows

\* with sqlite3.connect(self.valves.direct_db_path) as conn: the call opens
\* a connection of its own, unless connect raises; n is 1 when it did.
Connect(by, outcome) ==
    Ev("connect", by, "direct_db_path", "",
       IF outcome = "unable to open" THEN 0 ELSE 1, 0)

\* A store call that reports success whatever sqlite3 did.
_save_memory_to_db_always_true(outcome) == "True"

\* What the call does, by what sqlite3 does: the three sqlite3 handlers
\* return False, any other exception leaves the function.
_save_memory_to_db(outcome) ==
    IF outcome = "ok" THEN "True"
    ELSE IF outcome \in {"IntegrityError", "OperationalError", "Error",
                          "unable to open"}
    THEN "False"
    ELSE "raise"

\* ------------------------------------------------------------ Storage Router
\* A routing condition that does not ask for the request handle.
UseRichApi_without_request(f) == add_memory /\ f.user_obj # None

\* if add_memory and user and request
UseRichApi(f) == add_memory /\ f.user_obj # None /\ f.request # None

\* A routing condition that takes the direct adapter whatever the user id.
UseDirectDb_always(f) == TRUE

\* elif user_id
UseDirectDb(f) == f.user_id # ""

\* An aborting return that reports no failure.
NoStorageResult_no_failures(n, saved) == Result(FALSE, saved, 0)

\* The aborting return of process_memories: no storage method available.
NoStorageResult(n, saved) == Result(FALSE, saved, n - saved)

\* The final return of process_memories.
FinalResult(saved, failed) == Result(failed = 0, saved, failed)

\* The for loop of Filter.process_memories from element idx on, up to the
\* await of query_memory (the Rich adapter suspends there) or to the return.
\* db[k] is what sqlite3 does for element k; rows are the rows inserted and
\* lg the collaborator calls made so far in this segment.  A "db" event
\* carries the id of the row inserted, 0 when sqlite3 raised, and the time
\* the call read from the clock.  An exception that leaves
\* _save_memory_to_db is caught by the loop's own handler and counted as a
\* failure of that element.
RECURSIVE RouterLoop(_, _, _, _, _, _, _)
RouterLoop(f, idx, saved, failed, db, rows, lg) ==
    LET memory_list == literal_eval(f.memories).items IN
    IF idx > Len(memory_list)
    THEN [pc |-> "return", idx |-> idx, saved |-> saved, failed |-> failed,
          result |-> FinalResult(saved, failed), rows |-> rows, log |-> lg]
    ELSE LET item == memory_list[idx] IN
         IF ~isinstance_str(item)
         THEN RouterLoop(f, idx + 1, saved, failed + 1, db, rows, lg)
         ELSE IF UseRichApi(f)
         THEN [pc |-> IF query_memory THEN "await_query" ELSE "await_add",
               idx |-> idx, saved |-> saved, failed |-> failed,
               result |-> NoResult, rows |-> rows,
               log |-> lg \o <<Ev("rich", "outlet", item.text, "", 0, 0),
                               Ev(IF query_memory THEN "query" ELSE "add",
                                  "outlet", item.text, "", 0, 0)>>]
         ELSE IF UseDirectDb(f)
         THEN LET answer == _save_memory_to_db(db[idx].outcome)
                  success == answer = "True"
                  row == Row(Len(memory) + Len(rows) + 1, f.user_id, item.text,
                             db[idx].time)
                  inserted == db[idx].outcome = "ok"
              IN RouterLoop(f, idx + 1,
                            IF success THEN saved + 1 ELSE saved,
                            IF success THEN failed ELSE failed + 1,
                            db,
                            IF inserted THEN Append(rows, row) ELSE rows,
                            (lg \o <<Connect("outlet", db[idx].outcome),
                                     Ev("db", "outlet", item.text, f.user_id,
                                        IF inserted THEN row.id ELSE 0,
                                        db[idx].time)>>)
                            \o (IF answer = "raise"
                                THEN <<Fault("outlet", "store")>> ELSE <<>>))
         ELSE [pc |-> "return", idx |-> idx, saved |-> saved, failed |-> failed,
               result |-> NoStorageResult(Len(memory_list), saved),
               rows |-> rows, log |-> lg]

\* Filter.process_memories up to its loop: the text is parsed again.
ParsesToList(memories) ==
    memories.type = "str" /\ literal_eval(memories).kind = "list"

\* ------------------------------------------------------------ Rich Memory Adapter
\* A duplicate test that also skips at the threshold itself.
AnyBelowThreshold_inclusive(distances) ==
    \E k \in 1..Len(distances) : distances[k] <= related_memories_dist

\* any(d < self.valves.related_memories_dist for d in distances)
AnyBelowThreshold(distances) ==
    \E k \in 1..Len(distances) : distances[k] < related_memories_dist

\* Filter._store_memory_with_api after the await of query_memory:
\*   "skip"  return True without inserting (a similar memory exists)
\*   "add"   go on to `if add_memory: await add_memory(...)`
\*   "fail"  an exception left the try body: logged, return False
AfterQuery(related) ==
    CASE related.kind \in {"raise_structural", "raise_other"} -> "fail"
      [] related.kind \in {"falsy", "short"} -> "add"
      [] related.kind = "no_distances" -> "add"
      [] related.kind = "bad_shape" -> "fail"
      [] related.kind = "distances" ->
            IF AnyBelowThreshold(related.distances) THEN "skip" ELSE "add"

\* Its return value after the await of add_memory.
AfterAdd(outcome) == outcome = "ok"

\* ------------------------------------------------------------ outlet
\* An outlet that does not look at the enabled toggle.
PipelineEnabled_ignored == TRUE

\* if not self.valves.enabled: return body
PipelineEnabled == valves.enabled

\* A Live Path that does not ask for the user's own toggle.
UserEnabled_ignored(f) == TRUE

\* user_settings.get("enabled", True)
UserEnabled(f) == f.user.enabled

\* A pipeline that extracts whatever the auto-save toggle says.
AutoSave_ignored == TRUE

\* self.valves.auto_save_user, as outlet and the background task test it.
AutoSave == valves.auto_save_user

Return(f) == [f EXCEPT !.pc = "returned", !.returned = TRUE, !.value = f.body]

\* An exception leaves the call.
Raise(f) == [f EXCEPT !.pc = "returned", !.raised = TRUE]

\* A summary that says "Saved N" whenever anything was saved.
StatusMsg_any_saved(result) ==
    IF result.saved > 0
    THEN Ev("emit", "outlet", "Saved N memory/memories", "", result.saved, 0)
    ELSE Ev("emit", "outlet", "Memory extraction found nothing to save", "", 0, 0)

\* The status_msg of the summary notification.
StatusMsg(result) ==
    IF result.success
    THEN Ev("emit", "outlet", "Saved N memory/memories", "", result.saved, 0)
    ELSE IF result.saved > 0
    THEN Ev("emit", "outlet", "Saved N/M memories (some failed)", "",
            result.saved, result.saved + result.failed)
    ELSE Ev("emit", "outlet", "Memory extraction found nothing to save", "", 0, 0)

\* An outlet whose handler lets an exception of the status sink through.
AfterStatus_uncaught(f, outcome) ==
    IF outcome = "raise" THEN Raise(f) ELSE Return(f)

\* outlet after the await of the summary notification: when the sink
\* raised, the handler of outlet's try logs it; either way outlet returns
\* the body.
AfterStatus(f, outcome) == Return(f)

\* if user_settings.get("show_status", True) and __event_emitter__
ShowStatus(f) == f.user.show_status /\ f.emitter # None

\* The caller's frame and history once the router segment r has run: the
\* router suspended in the Rich adapter, or process_memories returned (to
\* outlet, which then emits the summary, or to the caller of
\* process_memories).
AfterRouter(f, r) ==
    LET f1 == [f EXCEPT !.idx = r.idx, !.saved = r.saved, !.failed = r.failed,
                        !.result = r.result]
    IN IF r.pc # "return"
       THEN [frame |-> [f1 EXCEPT !.pc = r.pc], log |-> r.log]
       ELSE IF f.entry = "process_memories"
       THEN [frame |-> [f1 EXCEPT !.pc = "returned", !.returned = TRUE],
             log |-> r.log]
       ELSE IF ShowStatus(f)
       THEN [frame |-> [f1 EXCEPT !.pc = "await_status"],
             log |-> Append(r.log, StatusMsg(r.result))]
       ELSE [frame |-> Return(f1), log |-> r.log]

\* A chat-completion test that asks for a user or a request to be present.
is_chat_completed_inverted(user, request, body) ==
    /\ (~user.none \/ request # None)
    /\ ~body.none
    /\ body.has_chat_id
    /\ body.has_messages

\* is_chat_completed of Filter.outlet.
is_chat_completed(user, request, body) ==
    /\ (user.none \/ request = None)
    /\ ~body.none
    /\ body.has_chat_id
    /\ body.has_messages

\* An outlet that waits for the task it created.
AfterSpawn_joined(f) == [f EXCEPT !.pc = "await_task"]

\* outlet after asyncio.create_task(...): it returns the body at once, the
\* task has not run yet.
AfterSpawn(f) == Return(f)

\* Filter.outlet from the classification (after the degraded-mode warning)
\* to its first suspension or its return.  lookup is what
\* Users.get_user_by_id does when it is called.
Classify(f, lookup) ==
    LET messages == f.body.messages
        n == Len(messages)
    IN IF is_chat_completed(f.user, f.request, f.body)
       THEN IF messages # <<>>
            THEN [frame |-> AfterSpawn(f), spawn |-> TRUE,
                  log |-> <<Ev("spawn", "outlet", f.body.chat_id, "", 0, 0)>>]
            ELSE [frame |-> Return(f), spawn |-> FALSE, log |-> <<>>]
       ELSE IF f.user.none \/ f.body.none
       THEN [frame |-> Return(f), spawn |-> FALSE, log |-> <<>>]
       ELSE IF messages = <<>>
       THEN [frame |-> Return(f), spawn |-> FALSE, log |-> <<>>]
       ELSE IF ~UserEnabled(f)
       THEN [frame |-> Return(f), spawn |-> FALSE, log |-> <<>>]
       ELSE IF n >= 2 /\ AutoSave /\ ~is_dict(messages[n - 1])
       THEN \* user_message.get raises AttributeError before the try
            [frame |-> Raise(f), spawn |-> FALSE, log |-> <<Fault("outlet", "turn")>>]
       ELSE IF n >= 2 /\ AutoSave /\ messages[n - 1].role = "user"
       THEN IF Users /\ ~f.user.has_id
            THEN \* user["id"] raises KeyError inside the try
                 [frame |-> Return(f), spawn |-> FALSE,
                  log |-> <<Fault("outlet", "user id")>>]
            ELSE IF Users /\ lookup = "raise"
            THEN [frame |-> Return(f), spawn |-> FALSE,
                  log |-> <<Ev("get_user_by_id", "outlet", "", f.user.id, 0, 0),
                            Fault("outlet", "user lookup")>>]
            ELSE [frame |-> [f EXCEPT !.pc = "await_extract",
                                      !.user_obj = IF Users THEN lookup ELSE None,
                                      !.user_id = f.user.id],
                  spawn |-> FALSE,
                  log |-> (IF Users
                           THEN <<Ev("get_user_by_id", "outlet", "", f.user.id, 0, 0)>>
                           ELSE <<>>)
                          \o <<Ev("extract", "outlet", messages[n - 1].content,
                                  "", 0, 0)>>]
       ELSE [frame |-> Return(f), spawn |-> FALSE, log |-> <<>>]

\* The frame of the task asyncio.create_task starts: it first sleeps.
SpawnedTask(body) ==
    [IdleTask EXCEPT !.pc = "sleeping", !.chat_id = body.chat_id,
                     !.messages = body.messages]

\* ------------------------------------------------------------ background task
\* A scan that stops at the first user-authored turn from the front.
RECURSIVE FirstUserIndex(_, _)
FirstUserIndex(messages, k) ==
    IF k = 0 THEN 0
    ELSE LET j == Len(messages) + 1 - k IN
         IF messages[j].role = "user" THEN j
         ELSE FirstUserIndex(messages, k - 1)

\* for msg in reversed(messages): if msg.get("role") == "user": ... break
\* The index of the turn the loop stops at, 0 when it runs through.
RECURSIVE LastUserIndex(_, _)
LastUserIndex(messages, k) ==
    IF k = 0 THEN 0
    ELSE IF messages[k].role = "user" THEN k
    ELSE LastUserIndex(messages, k - 1)

\* A loop that hands the facts to add_memory when the rich API is bound.
RECURSIVE DirectLoop_rich_when_bound(_, _, _, _, _, _)
DirectLoop_rich_when_bound(memory_list, idx, user_id, db, rows, lg) ==
    IF idx > Len(memory_list) THEN [rows |-> rows, log |-> lg]
    ELSE LET item == memory_list[idx] IN
         IF isinstance_str(item)
         THEN LET answer == _save_memory_to_db(db[idx].outcome)
                  row == Row(Len(memory) + Len(rows) + 1, user_id, item.text,
                             db[idx].time)
                  inserted == db[idx].outcome = "ok" /\ ~add_memory
                  called == lg \o <<Connect("task", db[idx].outcome),
                                    Ev(IF add_memory THEN "add" ELSE "db",
                                       "task", item.text, user_id,
                                       IF inserted THEN row.id ELSE 0,
                                       db[idx].time)>>
              IN IF answer = "raise"
                 THEN [rows |-> rows,
                       log |-> Append(called, Fault("task", "store"))]
                 ELSE DirectLoop_rich_when_bound(memory_list, idx + 1, user_id,
                            db, IF inserted THEN Append(rows, row) ELSE rows,
                            called)
         ELSE DirectLoop_rich_when_bound(memory_list, idx + 1, user_id, db, rows, lg)

\* The for loop of Filter._process_user_message_direct from element idx on.
\* The try of the function encloses the whole loop: an exception that leaves
\* _save_memory_to_db ends the loop and is logged by the handler.
RECURSIVE DirectLoop(_, _, _, _, _, _)
DirectLoop(memory_list, idx, user_id, db, rows, lg) ==
    IF idx > Len(memory_list) THEN [rows |-> rows, log |-> lg]
    ELSE LET item == memory_list[idx] IN
         IF isinstance_str(item)
         THEN LET answer == _save_memory_to_db(db[idx].outcome)
                  row == Row(Len(memory) + Len(rows) + 1, user_id, item.text,
                             db[idx].time)
                  inserted == db[idx].outcome = "ok"
                  called == lg \o <<Connect("task", db[idx].outcome),
                                    Ev("db", "task", item.text, user_id,
                                       IF inserted THEN row.id ELSE 0,
                                       db[idx].time)>>
              IN IF answer = "raise"
                 THEN [rows |-> rows,
                       log |-> Append(called, Fault("task", "store"))]
                 ELSE DirectLoop(memory_list, idx + 1, user_id, db,
                                 IF inserted THEN Append(rows, row) ELSE rows,
                                 called)
         ELSE DirectLoop(memory_list, idx + 1, user_id, db, rows, lg)

\* The loop calls msg.get on an element that is not a dict before it
\* reaches a user-authored turn: AttributeError.
RECURSIVE ScanRaises(_, _)
ScanRaises(messages, k) ==
    IF k = 0 THEN FALSE
    ELSE IF ~is_dict(messages[k]) THEN TRUE
    ELSE IF messages[k].role = "user" THEN FALSE
    ELSE ScanRaises(messages, k - 1)

\* A resolver that reports a store error as "not found".
_get_user_id_for_chat_conflated(chat_id, resolve) ==
    IF resolve = "ok"
    THEN [user_id |-> chat[chat_id], error |-> ""]
    ELSE [user_id |-> "", error |-> ""]

\* A resolver whose SELECT has no WHERE clause: it reads the first row.
_get_user_id_for_chat_any_row(chat_id, resolve) ==
    IF resolve = "ok"
    THEN [user_id |-> chat["chat-1"], error |-> ""]
    ELSE IF resolve = "no row"
    THEN [user_id |-> "", error |-> ""]
    ELSE [user_id |-> "", error |-> "Database error"]

\* Filter._get_user_id_for_chat: (user_id, error); "" stands for None.
\* resolve is what sqlite3 does.
_get_user_id_for_chat(chat_id, resolve) ==
    IF resolve = "ok"
    THEN [user_id |-> chat[chat_id], error |-> ""]
    ELSE IF resolve = "no row"
    THEN [user_id |-> "", error |-> ""]
    ELSE [user_id |-> "", error |-> "Database error"]

\* A task wrapper that logs the exception and raises it again.
_safe_process_completed_chat_reraises(t) ==
    [t EXCEPT !.pc = "done", !.raised = TRUE]

\* Filter._safe_process_completed_chat when an exception leaves
\* _process_completed_chat: it is logged and the task ends.
_safe_process_completed_chat(t) == [t EXCEPT !.pc = "done"]

\* A task that reports to the status sink when it wakes.
Wake_notifying(t, resolve) ==
    [frame |-> [t EXCEPT !.pc = "done"],
     log |-> <<Ev("resolve", "task", t.chat_id, "", 0, 0),
               Ev("emit", "task", "Memory extraction found nothing to save",
                  "", 0, 0)>>]

\* A task that goes on to the extraction whatever the resolver answered.
Wake_whatever_owner(t, resolve) ==
    LET r == _get_user_id_for_chat(t.chat_id, resolve)
        k == LastUserIndex(t.messages, Len(t.messages))
        lookup == Ev("resolve", "task", t.chat_id, "", 0, 0)
    IN IF k > 0 /\ ~ScanRaises(t.messages, Len(t.messages))
       THEN [frame |-> [t EXCEPT !.pc = "await_extract", !.user_id = r.user_id,
                                 !.error = r.error,
                                 !.content = t.messages[k].content],
             log |-> <<lookup, Ev("extract", "task", t.messages[k].content,
                                  "", 0, 0)>>]
       ELSE [frame |-> [t EXCEPT !.pc = "done", !.user_id = r.user_id,
                                 !.error = r.error],
             log |-> <<lookup>>]

\* Filter._process_completed_chat after asyncio.sleep(1), to the await of
\* the extraction request or to the task's end.  resolve is what sqlite3
\* does in _get_user_id_for_chat.
Wake(t, resolve) ==
    LET lookup == Ev("resolve", "task", t.chat_id, "", 0, 0)
        r == _get_user_id_for_chat(t.chat_id, resolve)
        user_id == r.user_id
        error == r.error # ""
        k == LastUserIndex(t.messages, Len(t.messages))
        done == [t EXCEPT !.pc = "done", !.user_id = user_id, !.error = r.error]
        looked == IF resolve = "sqlite3.Error"
                  THEN <<lookup, Fault("task", "resolver")>> ELSE <<lookup>>
    IN IF error
       THEN [frame |-> done, log |-> looked]
       ELSE IF user_id = ""
       THEN [frame |-> done, log |-> looked]
       ELSE IF AutoSave /\ Len(t.messages) >= 2
               /\ ScanRaises(t.messages, Len(t.messages))
       THEN [frame |-> _safe_process_completed_chat([t EXCEPT !.user_id = user_id]),
             log |-> looked \o <<Fault("task", "turn")>>]
       ELSE IF AutoSave /\ Len(t.messages) >= 2 /\ k > 0
       THEN IF t.messages[k].content = ""
            THEN [frame |-> done, log |-> looked]
            ELSE [frame |-> [t EXCEPT !.pc = "await_extract", !.user_id = user_id,
                                      !.content = t.messages[k].content],
                  log |-> looked \o <<Ev("extract", "task", t.messages[k].content,
                                       "", 0, 0)>>]
       ELSE [frame |-> done, log |-> looked]

\* ------------------------------------------------------------ the ZDR pipe
\* Pipe.Valves: the two valves the methods branch on; "" is the default of
\* OPENROUTER_API_KEY.
DefaultPipeValves == [OPENROUTER_API_KEY |-> "", ENABLE_ZDR_ENFORCEMENT |-> TRUE]
PipeValves == [OPENROUTER_API_KEY : {"", "valve-key"}, ENABLE_ZDR_ENFORCEMENT : BOOLEAN]

\* Valves.NAME_PREFIX, default "ZDR/".
NAME_PREFIX == "ZDR/"

\* Valves.ZDR_CACHE_TTL, in ticks of the model's clock (the default is 3600 s).
ZDR_CACHE_TTL == 2

\* How far the clock of the pipe runs.
MaxWall == 3

\* self._zdr_cache: None, or a list of model ids.
NoCache == [none |-> TRUE, list |-> <<>>]
Cached(list) == [none |-> FALSE, list |-> list]

\* The last fetch of the ZDR list that succeeded since the cache was last
\* empty: when, what it returned, and whether a call has been made since
\* at or after `at` + ZDR_CACHE_TTL.
NotFetched == [some |-> FALSE, at |-> 0, list |-> <<>>, late |-> FALSE]
Fetched(at, list) == [some |-> TRUE, at |-> at, list |-> list, late |-> FALSE]

\* The body of a call that is not pipe().
NoPipeBody ==
    [model |-> <<>>, stream |-> FALSE,
     provider |-> [kind |-> "absent", dict |-> [k \in {} |-> ""]], prompt |-> ""]

\* Pipe.__init__
PipeConstructed ==
    /\ _zdr_cache = NoCache
    /\ _zdr_cache_time = 0
    /\ wall = 0
    /\ fetched = NotFetched
    /\ last_call = [op |-> "__init__", requests |-> <<>>,
                    result |-> [kind |-> "None", entries |-> <<>>, error |-> ""],
                    raised |-> FALSE, zdr |-> <<>>, catalogue |-> <<>>,
                    fetch |-> "none", body |-> NoPipeBody]

\* Pipe._get_api_key: the valve, else the environment variable, else "".
_get_api_key ==
    IF pipe_valves.OPENROUTER_API_KEY # ""
    THEN pipe_valves.OPENROUTER_API_KEY
    ELSE OPENAI_API_KEY

\* A test that always finds a key.
KeyMissing_never == FALSE

\* api_key = self._get_api_key(); if not api_key
KeyMissing == _get_api_key = ""

\* What GET /endpoints/zdr answers: a list of model ids (taken from the
\* "model" key of each item of "data"), or a failure: raise_for_status
\* raises HTTPError, an item has no "model" key.
ZdrLists ==
    {<<>>,
     <<"openrouter/gpt-4o-mini", "openrouter/gpt-4o">>,
     <<"openrouter/gpt-4o">>,
     <<"other/retired">>}
ZdrResponses ==
    [outcome : {"ok"}, list : ZdrLists]
    \cup [outcome : {"HTTPError", "KeyError"}, list : {<<>>}]

\* One model of the catalogue GET /models answers with: has_id and has_name
\* tell whether the keys are there.
CatalogueModel(id, name) ==
    [has_id |-> id # "", id |-> id, has_name |-> name # "", name |-> name]
Catalogues ==
    {<<>>,
     <<CatalogueModel("openrouter/gpt-4o-mini", "GPT-4o mini"),
       CatalogueModel("openrouter/claude", "Claude"),
       CatalogueModel("openrouter/gpt-4o", "GPT-4o")>>,
     <<CatalogueModel("openrouter/gpt-4o", ""),
       CatalogueModel("openrouter/gpt-4o-mini", "GPT-4o mini")>>,
     <<CatalogueModel("openrouter/gpt-4o", "GPT-4o"),
       CatalogueModel("", "nameless")>>}
CatalogueResponses ==
    [outcome : {"ok"}, models : Catalogues]
    \cup [outcome : {"HTTPError", "ValueError"}, models : {<<>>}]

\* An HTTP request the pipe issued.
NoPayload ==
    [model |-> <<>>, stream |-> FALSE, provider |-> "absent",
     settings |-> [k \in {} |-> ""],
     prompt |-> ""]
HttpGet(url) == [method |-> "GET", url |-> url, stream |-> FALSE, payload |-> NoPayload]
HttpPost(url, stream, payload) ==
    [method |-> "POST", url |-> url, stream |-> stream, payload |-> payload]

\* What a method returned.
ErrorEntry(name) == [id |-> "error", name |-> name]
Entries(list) == [kind |-> "entries", entries |-> list, error |-> ""]
ErrorString(text) == [kind |-> "str", entries |-> <<>>, error |-> text]
IdList(list) ==
    [kind |-> "ids", entries |-> [k \in 1..Len(list) |-> [id |-> list[k], name |-> ""]],
     error |-> ""]
Other(kind) == [kind |-> kind, entries |-> <<>>, error |-> ""]

\* A cache test that holds the list for one tick more.
CacheFresh_inclusive ==
    /\ ~_zdr_cache.none /\ _zdr_cache.list # <<>>
    /\ wall - _zdr_cache_time <= ZDR_CACHE_TTL

\* if self._zdr_cache and (now - self._zdr_cache_time) < self.valves.ZDR_CACHE_TTL
CacheFresh ==
    /\ ~_zdr_cache.none /\ _zdr_cache.list # <<>>
    /\ wall - _zdr_cache_time < ZDR_CACHE_TTL

\* Pipe._get_zdr_models, by what the ZDR endpoint answers when it is asked:
\* the list returned, the requests issued, the branch taken ("cached",
\* "ok", "failed") and the cache it leaves.
_get_zdr_models(response) ==
    IF CacheFresh
    THEN [list |-> _zdr_cache.list, requests |-> <<>>, fetch |-> "cached",
          cache |-> _zdr_cache, time |-> _zdr_cache_time, fetched |-> fetched]
    ELSE IF response.outcome = "ok"
    THEN [list |-> response.list, requests |-> <<HttpGet("/endpoints/zdr")>>,
          fetch |-> "ok", cache |-> Cached(response.list), time |-> wall,
          fetched |-> Fetched(wall, response.list)]
    ELSE [list |-> IF ~_zdr_cache.none THEN _zdr_cache.list ELSE <<>>,
          requests |-> <<HttpGet("/endpoints/zdr")>>, fetch |-> "failed",
          cache |-> _zdr_cache, time |-> _zdr_cache_time,
          fetched |-> [fetched EXCEPT !.late =
                         @ \/ (fetched.some /\ wall >= fetched.at + ZDR_CACHE_TTL)]]

\* The display names the model knows, in the order Python's str comparison
\* puts them.
Alphabetical ==
    <<"ZDR/Claude", "ZDR/GPT-4o", "ZDR/GPT-4o mini", "ZDR/nameless",
      "ZDR/openrouter/gpt-4o">>
Rank(name) == CHOOSE k \in 1..Len(Alphabetical) : Alphabetical[k] = name

\* f"{self.valves.NAME_PREFIX}{model.get('name', model['id'])}"
DisplayName(model) ==
    NAME_PREFIX \o (IF model.has_name THEN model.name ELSE model.id)

\* A filter that lists the whole catalogue.
IsZdr_everything(model, zdr_model_ids) == TRUE

\* if model["id"] in zdr_model_ids
IsZdr(model, zdr_model_ids) == model.id \in zdr_model_ids

\* The list comprehension of pipes() and the sort by name that follows it.
ZdrEntries(all_models, zdr_model_ids) ==
    LET kept == SelectSeq(all_models, LAMBDA model : IsZdr(model, zdr_model_ids))
        entries == [k \in 1..Len(kept) |->
                      [id |-> kept[k].id, name |-> DisplayName(kept[k])]]
    IN SortSeq(entries, LAMBDA x, y : Rank(x.name) < Rank(y.name))

\* Pipe.pipes() from the catalogue request on, for the ZDR ids at hand.
ListModels(zdr_model_ids, catalogue) ==
    IF catalogue.outcome = "HTTPError"
    THEN <<ErrorEntry("Network error")>>
    ELSE IF catalogue.outcome # "ok"
    THEN <<ErrorEntry("Error loading ZDR models")>>
    ELSE IF \E k \in 1..Len(catalogue.models) : ~catalogue.models[k].has_id
    THEN <<ErrorEntry("Error loading ZDR models")>>
    ELSE IF ZdrEntries(catalogue.models, zdr_model_ids) = <<>>
    THEN <<ErrorEntry("No ZDR models available")>>
    ELSE ZdrEntries(catalogue.models, zdr_model_ids)

\* The bodies pipe() is called with.  "model" is the model string split at
\* its dots; "provider" is absent, a dict (a function from its keys), or
\* None.
EmptyDict == [k \in {} |-> ""]
ProviderDicts ==
    {EmptyDict} \cup [{"zdr"} -> {"false"}]
      \cup {[k \in {"zdr", "order"} |-> IF k = "zdr" THEN "false" ELSE "x"]}
Providers ==
    [kind : {"dict"}, dict : ProviderDicts]
    \cup [kind : {"absent", "None"}, dict : {EmptyDict}]
PipeBodies ==
    [model : {<<"openrouter_zdr", "openrouter/gpt-4o">>, <<"openrouter/gpt-4o">>},
     stream : BOOLEAN, provider : Providers, prompt : {"hello"}]

\* model_id[model_id.find(".") + 1 :] when the string has a dot
StripPrefix(model) == IF Len(model) > 1 THEN Tail(model) ELSE model

\* A payload that keeps the provider settings of the body as they are.
Payload_untouched(body) ==
    [model |-> StripPrefix(body.model), stream |-> body.stream,
     provider |-> body.provider.kind, settings |-> body.provider.dict,
     prompt |-> body.prompt]

\* {**body, "model": model_id}, and with the enforcement on
\* payload["provider"] = {**body.get("provider", {}), "zdr": True}
Payload(body) ==
    LET given == body.provider.dict IN
    IF pipe_valves.ENABLE_ZDR_ENFORCEMENT
    THEN [model |-> StripPrefix(body.model), stream |-> body.stream,
          provider |-> "dict",
          settings |-> [k \in DOMAIN given \cup {"zdr"} |->
                          IF k = "zdr" THEN "true" ELSE given[k]],
          prompt |-> body.prompt]
    ELSE [model |-> StripPrefix(body.model), stream |-> body.stream,
          provider |-> body.provider.kind, settings |-> given,
          prompt |-> body.prompt]

\* How the POST to /chat/completions ends.
ChatResponses == {"ok", "Timeout", "HTTPError", "ValueError"}

\* ------------------------------------------------------------ state
TypeOK ==
    /\ valves \in [enabled : BOOLEAN, auto_save_user : BOOLEAN]
    /\ DIRECT_DB_MODE \in BOOLEAN
    /\ _warned_direct_mode \in BOOLEAN
    /\ chat \in [ChatIds -> UserIds \cup {""}]
    /\ Len(memory) <= MaxRecords
    /\ DOMAIN call = Slots /\ DOMAIN task = Slots /\ DOMAIN log = Slots
    /\ now \in 0..MaxTime
    /\ connections \in 0..MaxConnections

Init ==
    /\ valves \in [enabled : BOOLEAN, auto_save_user : BOOLEAN]
    /\ DIRECT_DB_MODE \in BOOLEAN
    /\ _warned_direct_mode = FALSE
    /\ chat = ChatTable
    /\ memory = HostRows
    /\ call = [i \in Slots |-> IdleCall]
    /\ task = [i \in Slots |-> IdleTask]
    /\ log = [i \in Slots |-> <<>>]
    /\ now = 0
    /\ connections = 0
    /\ pipe_valves = DefaultPipeValves
    /\ OPENAI_API_KEY = ""
    /\ PipeConstructed

\* Slot i holds no call and no task.
SlotFree(i) ==
    /\ call[i].pc = "idle"
    /\ task[i].pc = "idle"

\* The store has room for whatever one more event may insert.
StoreHasRoom ==
    /\ Len(memory) + MaxFacts <= MaxRecords
    /\ connections + MaxFacts <= MaxConnections

\* The connections the store calls of a segment opened, by its history.
Opened(lg) == Len(SelectSeq(lg, LAMBDA e : e.op = "connect" /\ e.n = 1))

\* n successive readings of int(time.time()): the clock does not run
\* backwards.
Clocks(n) ==
    {c \in [1..n -> now..MaxTime] : \A j, k \in 1..n : j <= k => c[j] <= c[k]}

\* For each element of the list a text parses to: what sqlite3 does and
\* what the clock reads when _save_memory_to_db is called for it.
DbChoices(memories) ==
    LET items == literal_eval(memories).items
        n == Len(items)
        all == UNION {DbOutcomes(t) : t \in FactTexts}
    IN {[k \in 1..n |-> [outcome |-> o[k], time |-> c[k]]] :
           o \in {x \in [1..n -> all] :
                    \A k \in 1..n : x[k] \in DbOutcomes(items[k].text)},
           c \in Clocks(n)}

\* The clock after a segment that left lg in the history: the last reading
\* a store call made of it.
ClockAfter(lg) ==
    LET reads == SelectSeq(lg, LAMBDA e : e.op = "db") IN
    IF reads = <<>> THEN now ELSE reads[Len(reads)].m

\* ------------------------------------------------------------ actions
\* The classification segment of outlet for frame f of slot i; lg is the
\* history of the call so far.
RunClassify(i, f, lg, lookup) ==
    LET c == Classify(f, lookup) IN
    /\ call' = [call EXCEPT ![i] = c.frame]
    /\ task' = [task EXCEPT ![i] = IF c.spawn THEN SpawnedTask(f.body) ELSE IdleTask]
    /\ log' = [log EXCEPT ![i] = lg \o c.log]

\* An outlet that leaves the flag as it is when it sends the warning.
MarkWarned_forgotten == FALSE

\* self._warned_direct_mode = True, assigned before the await of the sink.
MarkWarned == TRUE

\* The host calls outlet(body, __event_emitter__, user, request).
Outlet(i, body, emitter, user, request, lookup) ==
    LET f == [IdleCall EXCEPT !.entry = "outlet", !.body = body,
                              !.emitter = emitter, !.user = user,
                              !.request = request]
    IN /\ SlotFree(i)
       /\ StoreHasRoom
       /\ IF ~PipelineEnabled
          THEN /\ call' = [call EXCEPT ![i] = Return(f)]
               /\ task' = [task EXCEPT ![i] = IdleTask]
               /\ log' = [log EXCEPT ![i] = <<>>]
               /\ UNCHANGED _warned_direct_mode
          ELSE IF DIRECT_DB_MODE /\ ~_warned_direct_mode /\ emitter # None
          THEN /\ _warned_direct_mode' = MarkWarned
               /\ call' = [call EXCEPT ![i] = [f EXCEPT !.pc = "await_warn"]]
               /\ task' = [task EXCEPT ![i] = IdleTask]
               /\ log' = [log EXCEPT ![i] =
                            <<Ev("emit", "outlet",
                                 "Auto-memory: running in direct DB mode (limited functionality)",
                                 "", 0, 0)>>]
          ELSE /\ RunClassify(i, f, <<>>, lookup)
               /\ UNCHANGED _warned_direct_mode
       /\ UNCHANGED <<now, valves, DIRECT_DB_MODE, chat, memory, connections>>

\* The await of the degraded-mode warning ends (returning or raising: the
\* exception is swallowed).
WarnReturns(i, outcome, lookup) ==
    /\ call[i].pc = "await_warn"
    /\ RunClassify(i, call[i],
                   IF outcome = "raise"
                   THEN Append(log[i], Fault("outlet", "warning sink"))
                   ELSE log[i],
                   lookup)
    /\ UNCHANGED <<now, valves, DIRECT_DB_MODE, _warned_direct_mode, chat, memory, connections>>

\* A router segment r of slot i takes effect.
ApplyRouter(i, f, r) ==
    LET a == AfterRouter(f, r) IN
    /\ Len(memory) + Len(r.rows) <= MaxRecords
    /\ call' = [call EXCEPT ![i] = a.frame]
    /\ log' = [log EXCEPT ![i] = log[i] \o a.log]
    /\ memory' = Insert(memory, r.rows)
    /\ now' = ClockAfter(r.log)
    /\ connections' = connections + Opened(r.log)
    /\ UNCHANGED <<valves, DIRECT_DB_MODE, _warned_direct_mode, chat, task>>

\* An extractor that posts again when it is rate limited.
HttpRequests_retry_on_429(by, response) ==
    IF response.outcome = "429"
    THEN <<Ev("post", by, "/chat/completions", "429", 0, 0),
           Ev("post", by, "/chat/completions", response.outcome, 0, 0)>>
    ELSE <<Ev("post", by, "/chat/completions", response.outcome, 0, 0)>>

\* The HTTP requests one invocation of _query_llm has issued when it
\* returns: the one session.post, with how it ended.
HttpRequests(by, response) ==
    <<Ev("post", by, "/chat/completions", response.outcome, 0, 0)>>

\* What the extractor's failure and the validator's leave in the history.
ExtractFaults(by, response) ==
    HttpRequests(by, response)
    \o (IF response.outcome # "ok"
     THEN <<Fault(by, "extractor")>> ELSE <<>>)
    \o (IF _is_valid_memory_list(identify_memories(response)) = "raise"
        THEN <<Fault(by, "validator")>> ELSE <<>>)

\* The await of identify_memories ends in outlet.
ExtractReturns(i, response, db) ==
    /\ call[i].pc = "await_extract"
    /\ LET memories == identify_memories(response)
           f == [call[i] EXCEPT !.memories = memories]
       IN IF _is_valid_memory_list(memories) = "True"
          THEN ApplyRouter(i, f, RouterLoop(f, 1, 0, 0, db, <<>>,
                                            HttpRequests("outlet", response)))
          ELSE /\ call' = [call EXCEPT ![i] = Return(f)]
               /\ log' = [log EXCEPT ![i] = log[i] \o ExtractFaults("outlet", response)]
               /\ UNCHANGED <<now, valves, DIRECT_DB_MODE, _warned_direct_mode,
                              chat, memory, connections, task>>

\* One element's store call returned `success` in the Rich adapter: the
\* router counts it and goes on with the next element.  lg is what the
\* adapter's last await left in the history.
NextElement(i, success, lg) ==
    LET f == call[i]
        db == [k \in 1..Len(literal_eval(f.memories).items) |->
                 [outcome |-> "Error", time |-> now]]
    IN ApplyRouter(i, f, RouterLoop(f, f.idx + 1,
                                    IF success THEN f.saved + 1 ELSE f.saved,
                                    IF success THEN f.failed ELSE f.failed + 1,
                                    db, <<>>, lg))

\* The await of query_memory ends.
QueryReturns(i, related) ==
    /\ call[i].pc = "await_query"
    /\ LET next == AfterQuery(related)
           item == literal_eval(call[i].memories).items[call[i].idx]
       IN IF next = "add" /\ add_memory
          THEN /\ call' = [call EXCEPT ![i].pc = "await_add"]
               /\ log' = [log EXCEPT ![i] =
                            Append(log[i], Ev("add", "outlet", item.text, "", 0, 0))]
               /\ UNCHANGED <<now, valves, DIRECT_DB_MODE, _warned_direct_mode, chat,
                              memory, connections, task>>
          ELSE NextElement(i, next = "skip",
                           IF next = "fail"
                           THEN <<Fault("outlet", "query_memory")>> ELSE <<>>)

\* The await of add_memory ends.
AddReturns(i, outcome) ==
    /\ call[i].pc = "await_add"
    /\ NextElement(i, AfterAdd(outcome),
                   IF outcome = "raise"
                   THEN <<Fault("outlet", "add_memory")>> ELSE <<>>)

\* The await of the summary notification ends (returning or raising: the
\* exception is caught by outlet's handler).
StatusReturns(i, outcome) ==
    /\ call[i].pc = "await_status"
    /\ call' = [call EXCEPT ![i] = AfterStatus(call[i], outcome)]
    /\ log' = [log EXCEPT ![i] =
                 IF outcome = "raise"
                 THEN Append(log[i], Fault("outlet", "status sink")) ELSE log[i]]
    /\ UNCHANGED <<now, valves, DIRECT_DB_MODE, _warned_direct_mode, chat, memory, connections,
                   task>>

\* The host (or a test) calls process_memories(memories, user, request,
\* user_id) on its own.
ProcessMemories(i, memories, user_obj, request, user_id, db) ==
    LET f == [IdleCall EXCEPT !.entry = "process_memories", !.memories = memories,
                              !.user_obj = user_obj, !.request = request,
                              !.user_id = user_id]
        parsed == literal_eval(memories)
    IN /\ SlotFree(i)
       /\ StoreHasRoom
       /\ memories.type = "str"
       /\ task' = [task EXCEPT ![i] = IdleTask]
       /\ IF parsed.kind = "TypeError"
          THEN /\ call' = [call EXCEPT ![i] =
                             [f EXCEPT !.pc = "returned", !.raised = TRUE]]
               /\ log' = [log EXCEPT ![i] = <<>>]
               /\ UNCHANGED <<memory, connections, now>>
          ELSE IF parsed.kind # "list"
          THEN /\ call' = [call EXCEPT ![i] =
                             [f EXCEPT !.pc = "returned", !.returned = TRUE,
                                       !.result = Result(FALSE, 0, 0)]]
               /\ log' = [log EXCEPT ![i] = <<>>]
               /\ UNCHANGED <<memory, connections, now>>
          ELSE LET r == RouterLoop(f, 1, 0, 0, db, <<>>, <<>>)
                   a == AfterRouter(f, r)
               IN /\ Len(memory) + Len(r.rows) <= MaxRecords
                  /\ call' = [call EXCEPT ![i] = a.frame]
                  /\ log' = [log EXCEPT ![i] = a.log]
                  /\ memory' = Insert(memory, r.rows)
                  /\ now' = ClockAfter(r.log)
                  /\ connections' = connections + Opened(r.log)
       /\ UNCHANGED <<valves, DIRECT_DB_MODE, _warned_direct_mode, chat>>

\* A task that takes a lock shared by the tasks when it wakes and holds it
\* across the extraction request.
TaskWakes_serialized(i, resolve) ==
    /\ task[i].pc = "sleeping"
    /\ \A j \in DOMAIN task \ {i} : task[j].pc # "await_extract"
    /\ LET w == Wake(task[i], resolve) IN
       /\ task' = [task EXCEPT ![i] = w.frame]
       /\ log' = [log EXCEPT ![i] = log[i] \o w.log]
    /\ UNCHANGED <<now, valves, DIRECT_DB_MODE, _warned_direct_mode, chat, memory, connections, call>>

\* asyncio.sleep(1) ends in the background task.
TaskWakes(i, resolve) ==
    /\ task[i].pc = "sleeping"
    /\ LET w == Wake(task[i], resolve) IN
       /\ task' = [task EXCEPT ![i] = w.frame]
       /\ log' = [log EXCEPT ![i] = log[i] \o w.log]
    /\ UNCHANGED <<now, valves, DIRECT_DB_MODE, _warned_direct_mode, chat, memory, connections, call>>

\* The await of identify_memories ends in the background task.
TaskExtractReturns(i, response, db) ==
    LET memories == identify_memories(response) IN
    /\ task[i].pc = "await_extract"
    /\ task' = [task EXCEPT ![i].pc = "done", ![i].memories = memories]
    /\ IF _is_valid_memory_list(memories) = "True"
       THEN LET d == DirectLoop(literal_eval(memories).items, 1, task[i].user_id,
                                db, <<>>, HttpRequests("task", response))
            IN /\ Len(memory) + Len(d.rows) <= MaxRecords
               /\ memory' = Insert(memory, d.rows)
               /\ now' = ClockAfter(d.log)
               /\ connections' = connections + Opened(d.log)
               /\ log' = [log EXCEPT ![i] = log[i] \o d.log]
       ELSE /\ log' = [log EXCEPT ![i] = log[i] \o ExtractFaults("task", response)]
            /\ UNCHANGED <<memory, connections, now>>
    /\ UNCHANGED <<valves, DIRECT_DB_MODE, _warned_direct_mode, chat, call>>

\* The host has taken the value the call of slot i returned, and the task
\* the call spawned, if any, has ended: the slot is free for the next event.
Release(i) ==
    /\ call[i].pc = "returned"
    /\ task[i].pc \in {"idle", "done"}
    /\ call' = [call EXCEPT ![i] = IdleCall]
    /\ task' = [task EXCEPT ![i] = IdleTask]
    /\ log' = [log EXCEPT ![i] = <<>>]
    /\ UNCHANGED <<now, valves, DIRECT_DB_MODE, _warned_direct_mode, chat, memory, connections>>
    /\ UNCHANGED pipeVars

\* The garbage collector finalizes the connection objects no frame refers
\* to any more: sqlite3 closes them.
Collect ==
    /\ connections > 0
    /\ connections' = 0
    /\ UNCHANGED <<valves, DIRECT_DB_MODE, _warned_direct_mode, chat, memory,
                   call, task, log, now>>
    /\ UNCHANGED pipeVars

\* The texts process_memories is called with on its own: it never looks at
\* the brackets, so these all start with "[" and end with "]".
BatchTexts == {m \in RawOutputs : m.type = "str" /\ m.startswith /\ m.endswith}

Next ==
    \E i \in Slots :
        \/ /\ SlotFree(i)
           /\ StoreHasRoom
           /\ UNCHANGED pipeVars
           /\ \E body \in Bodies, emitter \in Emitters, user \in UserDicts,
                 request \in Requests, lookup \in LookupResults :
                   Outlet(i, body, emitter, user, request, lookup)
        \/ /\ call[i].pc = "await_warn"
           /\ UNCHANGED pipeVars
           /\ \E outcome \in EmitResults, lookup \in LookupResults :
                   WarnReturns(i, outcome, lookup)
        \/ /\ call[i].pc = "await_extract"
           /\ UNCHANGED pipeVars
           /\ \E response \in LlmResponses :
                 \E db \in DbChoices(identify_memories(response)) :
                   ExtractReturns(i, response, db)
        \/ /\ call[i].pc = "await_query"
           /\ UNCHANGED pipeVars
           /\ \E related \in QueryResults : QueryReturns(i, related)
        \/ /\ call[i].pc = "await_add"
           /\ UNCHANGED pipeVars
           /\ \E outcome \in AddResults : AddReturns(i, outcome)
        \/ /\ call[i].pc = "await_status"
           /\ UNCHANGED pipeVars
           /\ \E outcome \in EmitResults : StatusReturns(i, outcome)
        \/ /\ SlotFree(i)
           /\ StoreHasRoom
           /\ UNCHANGED pipeVars
           /\ \E memories \in BatchTexts, user_obj \in {None, "UserModel"},
                 request \in Requests, user_id \in UserIds \cup {""} :
                 \E db \in DbChoices(memories) :
                   ProcessMemories(i, memories, user_obj, request, user_id, db)
        \/ /\ task[i].pc = "sleeping"
           /\ UNCHANGED pipeVars
           /\ \E resolve \in ResolveResults : TaskWakes(i, resolve)
        \/ /\ task[i].pc = "await_extract"
           /\ UNCHANGED pipeVars
           /\ \E response \in LlmResponses :
                 \E db \in DbChoices(identify_memories(response)) :
                   TaskExtractReturns(i, response, db)
        \/ Release(i)
        \/ Collect

Spec == Init /\ [][Next]_vars

\* ------------------------------------------------------------ the pipe's methods
\* The record of a call of a method.
PipeCallRecord(op, requests, result, raised, zdr, catalogue, fetch) ==
    [op |-> op, requests |-> requests, result |-> result, raised |-> raised,
     zdr |-> zdr, catalogue |-> catalogue, fetch |-> fetch, body |-> NoPipeBody]

\* A caller (or a test) calls _get_zdr_models().
GetZdrModels(response) ==
    LET r == _get_zdr_models(response) IN
    /\ _zdr_cache' = r.cache
    /\ _zdr_cache_time' = r.time
    /\ fetched' = r.fetched
    /\ last_call' = PipeCallRecord("_get_zdr_models", r.requests, IdList(r.list),
                                   FALSE, r.list, <<>>, r.fetch)
    /\ UNCHANGED <<pipe_valves, OPENAI_API_KEY, wall>>

\* The host calls pipes().
Pipes(zdr, catalogue) ==
    IF KeyMissing
    THEN /\ last_call' = PipeCallRecord("pipes", <<>>,
                            Entries(<<ErrorEntry("API Key not provided")>>),
                            FALSE, <<>>, <<>>, "none")
         /\ UNCHANGED <<pipe_valves, OPENAI_API_KEY, wall, _zdr_cache,
                        _zdr_cache_time, fetched>>
    ELSE LET r == _get_zdr_models(zdr)
             zdr_model_ids == {r.list[k] : k \in 1..Len(r.list)}
         IN /\ _zdr_cache' = r.cache
            /\ _zdr_cache_time' = r.time
            /\ fetched' = r.fetched
            /\ last_call' =
                 IF zdr_model_ids = {}
                 THEN PipeCallRecord("pipes", r.requests,
                         Entries(<<ErrorEntry("No ZDR models found")>>),
                         FALSE, r.list, <<>>, r.fetch)
                 ELSE PipeCallRecord("pipes",
                         Append(r.requests, HttpGet("/models")),
                         Entries(ListModels(zdr_model_ids, catalogue)),
                         FALSE, r.list, catalogue.models, r.fetch)
            /\ UNCHANGED <<pipe_valves, OPENAI_API_KEY, wall>>

\* The host calls pipe(body, __user__).  With the enforcement on, a body
\* whose "provider" is None makes {**None} raise TypeError before the try.
PipeRequest(body, response) ==
    /\ last_call' =
         [(IF KeyMissing
         THEN PipeCallRecord("pipe", <<>>, ErrorString("API key not configured"),
                             FALSE, <<>>, <<>>, "none")
         ELSE IF pipe_valves.ENABLE_ZDR_ENFORCEMENT /\ body.provider.kind = "None"
         THEN PipeCallRecord("pipe", <<>>, Other("None"), TRUE, <<>>, <<>>, "none")
         ELSE PipeCallRecord("pipe",
                 <<HttpPost("/chat/completions", body.stream, Payload(body))>>,
                 IF response = "Timeout" THEN ErrorString("Request timed out")
                 ELSE IF response = "HTTPError"
                 THEN ErrorString("Network request failed")
                 ELSE IF body.stream THEN Other("generator")
                 ELSE IF response = "ValueError" THEN ErrorString("Error")
                 ELSE Other("json"),
                 FALSE, <<>>, <<>>, "none"))
          EXCEPT !.body = body]
    /\ UNCHANGED <<pipe_valves, OPENAI_API_KEY, wall, _zdr_cache, _zdr_cache_time,
                   fetched>>

\* The host calls cleanup().
Cleanup ==
    /\ _zdr_cache' = NoCache
    /\ _zdr_cache_time' = 0
    /\ fetched' = NotFetched
    /\ last_call' = PipeCallRecord("cleanup", <<>>, Other("None"), FALSE, <<>>, <<>>, "none")
    /\ UNCHANGED <<pipe_valves, OPENAI_API_KEY, wall>>

\* Time passes.
Tick ==
    /\ wall < MaxWall
    /\ wall' = wall + 1
    /\ UNCHANGED <<pipe_valves, OPENAI_API_KEY, _zdr_cache, _zdr_cache_time,
                   fetched, last_call>>

\* The pipe after construction, with the valves the host has configured;
\* the filter is left as it is constructed.
PipeInit ==
    /\ pipe_valves \in PipeValves
    /\ OPENAI_API_KEY \in {"", "env-key"}
    /\ PipeConstructed
    /\ valves = [enabled |-> TRUE, auto_save_user |-> TRUE]
    /\ DIRECT_DB_MODE = FALSE
    /\ _warned_direct_mode = FALSE
    /\ chat = ChatTable
    /\ memory = HostRows
    /\ call = [i \in Slots |-> IdleCall]
    /\ task = [i \in Slots |-> IdleTask]
    /\ log = [i \in Slots |-> <<>>]
    /\ now = 0
    /\ connections = 0

PipeNext ==
    \/ /\ UNCHANGED filterVars
       /\ \E response \in ZdrResponses : GetZdrModels(response)
    \/ /\ UNCHANGED filterVars
       /\ \E zdr \in ZdrResponses, catalogue \in CatalogueResponses :
             Pipes(zdr, catalogue)
    \/ /\ UNCHANGED filterVars
       /\ \E body \in PipeBodies, response \in ChatResponses :
             PipeRequest(body, response)
    \/ /\ UNCHANGED filterVars
       /\ Cleanup
    \/ /\ UNCHANGED filterVars
       /\ Tick

PipeSpec == PipeInit /\ [][PipeNext]_vars

\* ------------------------------------------------------------ concurrent events
\* Two outlet calls in flight at once on the one event loop, each with the
\* task it may spawn, for two chats of two users.  The events are the ones
\* that store through the Direct adapter: chat-completed events, and live
\* events whose user the host's Users table does not know.
ConcSlots == {1, 2}
ConcChatTable ==
    [c \in {"chat-1", "chat-2"} |-> IF c = "chat-1" THEN "user-1" ELSE "user-2"]
ConcTurns ==
    <<[role |-> "user", content |-> "I love hiking"],
      [role |-> "assistant", content |-> "Nice!"]>>
ConcBodies == {Body(TRUE, c, TRUE, ConcTurns) : c \in DOMAIN ConcChatTable}
ConcUsers ==
    {NoUser}
    \cup [none : {FALSE}, has_id : {TRUE}, id : {"user-1", "user-2"},
          enabled : {TRUE}, show_status : {TRUE}]

\* The extractor answers with one fact, or with "[]".
OneFact ==
    [type |-> "str", startswith |-> TRUE, endswith |-> TRUE,
     eval |-> [kind |-> "list",
               items |-> <<[type |-> "str", text |-> "User enjoys hiking"]>>]]
ConcResponses ==
    {[outcome |-> "ok", content |-> c] : c \in {OneFact, EmptyListMarker}}

\* sqlite3 stores the row or finds the database locked; the clock stands.
ConcDbChoices(memories) ==
    [1..Len(literal_eval(memories).items) ->
        [outcome : {"ok", "OperationalError"}, time : {now}]]

ConcInit ==
    /\ valves = [enabled |-> TRUE, auto_save_user |-> TRUE]
    /\ DIRECT_DB_MODE \in BOOLEAN
    /\ _warned_direct_mode = FALSE
    /\ chat = ConcChatTable
    /\ memory = HostRows
    /\ call = [i \in ConcSlots |-> IdleCall]
    /\ task = [i \in ConcSlots |-> IdleTask]
    /\ log = [i \in ConcSlots |-> <<>>]
    /\ now = 0
    /\ connections = 0
    /\ pipe_valves = DefaultPipeValves
    /\ OPENAI_API_KEY = ""
    /\ PipeConstructed

ConcNext ==
    \E i \in ConcSlots :
        \/ /\ SlotFree(i)
           /\ StoreHasRoom
           /\ UNCHANGED pipeVars
           /\ \E body \in ConcBodies, emitter \in Emitters, user \in ConcUsers,
                 request \in Requests :
                   Outlet(i, body, emitter, user, request, None)
        \/ /\ call[i].pc = "await_warn"
           /\ UNCHANGED pipeVars
           /\ \E outcome \in EmitResults : WarnReturns(i, outcome, None)
        \/ /\ call[i].pc = "await_extract"
           /\ UNCHANGED pipeVars
           /\ \E response \in ConcResponses :
                 \E db \in ConcDbChoices(identify_memories(response)) :
                   ExtractReturns(i, response, db)
        \/ /\ call[i].pc = "await_status"
           /\ UNCHANGED pipeVars
           /\ \E outcome \in EmitResults : StatusReturns(i, outcome)
        \/ /\ task[i].pc = "sleeping"
           /\ UNCHANGED pipeVars
           /\ \E resolve \in ResolveResults : TaskWakes(i, resolve)
        \/ /\ task[i].pc = "await_extract"
           /\ UNCHANGED pipeVars
           /\ \E response \in ConcResponses :
                 \E db \in ConcDbChoices(identify_memories(response)) :
                   TaskExtractReturns(i, response, db)
        \/ Release(i)
        \/ Collect

ConcSpec == ConcInit /\ [][ConcNext]_vars

\* ------------------------------------------------------------ the tasks under fair scheduling
\* Chat-completed events only, two at a time: each call spawns its task and
\* returns.  The turn lists are the ones of the concurrent events, one
\* whose user turn is empty, and one with an element that is not a dict
\* after the user's turn.
TaskBodies ==
    ConcBodies
    \cup {Body(TRUE, "chat-1", TRUE,
               <<[role |-> "user", content |-> "I love hiking"], NotADict>>),
          Body(TRUE, "chat-2", TRUE,
               <<[role |-> "user", content |-> ""],
                 [role |-> "assistant", content |-> "Nice!"]>>)}

\* The extractor answers with a list of two facts whose first is written
\* with the escape \ud800.
SurrogateThenFact ==
    [type |-> "str", startswith |-> TRUE, endswith |-> TRUE,
     eval |-> [kind |-> "list",
               items |-> <<[type |-> "str", text |-> LoneSurrogate],
                           [type |-> "str", text |-> "User enjoys hiking"]>>]]

\* The extraction request returns (one fact, "[]", the two facts) or times
\* out.
TaskResponses ==
    ConcResponses
    \cup {[outcome |-> "ok", content |-> SurrogateThenFact],
          [outcome |-> "TimeoutError", content |-> NoneOutput]}

\* sqlite3 stores the row, finds the database locked, or cannot encode the
\* content; the clock stands.
TaskDbChoices(memories) ==
    LET items == literal_eval(memories).items IN
    {d \in [1..Len(items) ->
              [outcome : {"ok", "OperationalError", "UnicodeEncodeError"},
               time : {now}]] :
        \A k \in 1..Len(items) : d[k].outcome \in DbOutcomes(items[k].text)}

\* The next step of the task of slot i: the event loop resumes it when its
\* sleep has ended or when the extraction request has returned.  Neither
\* await is on another task, on the call that spawned it, or on a lock.
TaskStep(i) ==
    \/ /\ task[i].pc = "sleeping"
       /\ UNCHANGED pipeVars
       /\ \E resolve \in ResolveResults : TaskWakes(i, resolve)
    \/ /\ task[i].pc = "await_extract"
       /\ UNCHANGED pipeVars
       /\ \E response \in TaskResponses :
             \E db \in TaskDbChoices(identify_memories(response)) :
               TaskExtractReturns(i, response, db)

TaskNext ==
    \E i \in ConcSlots :
        \/ /\ SlotFree(i)
           /\ StoreHasRoom
           /\ UNCHANGED pipeVars
           /\ \E body \in TaskBodies : Outlet(i, body, None, NoUser, None, None)
        \/ TaskStep(i)
        \/ Release(i)
        \/ Collect

\* asyncio runs every task that is ready: a task whose await has ended is
\* resumed.  The host is not bound to send events or to take results.
FairSpec ==
    /\ ConcInit
    /\ [][TaskNext]_vars
    /\ \A i \in ConcSlots : WF_vars(TaskStep(i))

\* ------------------------------------------------------------ reading the history
\* The events of history l with an op in ops, made by `by`, in order.
Events(l, ops, by) == SelectSeq(l, LAMBDA e : e.op \in ops /\ e.by = by)

Texts(l) == [k \in 1..Len(l) |-> l[k].text]

StoreOps == {"rich", "query", "add", "db"}

\* The str elements of the list a text parses to, in order.
StrItems(memories) == SelectSeq(literal_eval(memories).items, isinstance_str)

\* A text that is, syntactically, a non-empty list of strings.
IsNonEmptyStrList(memories) ==
    /\ memories.type = "str"
    /\ literal_eval(memories).kind = "list"
    /\ literal_eval(memories).items # <<>>
    /\ all_str(literal_eval(memories).items)

\* The classification of outlet has run for the call of slot i.
Classified(i) ==
    /\ call[i].entry = "outlet"
    /\ call[i].pc \notin {"idle", "await_warn"}

\* ------------------------------------------------------------ claims
\* C1: for every extractor output that is not syntactically a non-empty
\* list of strings, _is_valid_memory_list does not accept it and no store
\* call (Rich or Direct adapter) is made for that event, on the Live Path
\* (outlet) and on the Background Path (task) alike; nothing of a partly
\* valid list is stored.
C1_InvalidOutputStoresNothing ==
    \A i \in Slots :
        /\ (/\ call[i].entry = "outlet"
            /\ call[i].memories # Unbound
            /\ ~IsNonEmptyStrList(call[i].memories))
           => /\ _is_valid_memory_list(call[i].memories) # "True"
              /\ Events(log[i], StoreOps, "outlet") = <<>>
              /\ ~call[i].result.set
        /\ (/\ task[i].memories # Unbound
            /\ ~IsNonEmptyStrList(task[i].memories))
           => /\ _is_valid_memory_list(task[i].memories) # "True"
              /\ Events(log[i], StoreOps, "task") = <<>>

\* C1 witness: a bracketed list with a string and a non-string element came
\* back on both paths of some run: here on the Live Path, the call returned.
C1_Witness ==
    \E i \in Slots :
        /\ call[i].entry = "outlet"
        /\ call[i].pc = "returned"
        /\ call[i].memories.type = "str"
        /\ call[i].memories.startswith /\ call[i].memories.endswith
        /\ literal_eval(call[i].memories).kind = "list"
        /\ Len(literal_eval(call[i].memories).items) = 2
        /\ isinstance_str(literal_eval(call[i].memories).items[1])
        /\ ~isinstance_str(literal_eval(call[i].memories).items[2])

\* C2: whenever process_memories has returned for a batch (a text that
\* parses to a list), saved_count + failed_count = len(batch) and
\* overall_success holds exactly when failed_count = 0, whatever the adapters
\* did.
C2_CountsAddUp ==
    \A i \in Slots :
        (call[i].result.set /\ ParsesToList(call[i].memories))
        => /\ call[i].result.saved + call[i].result.failed
                = Len(literal_eval(call[i].memories).items)
           /\ call[i].result.success <=> (call[i].result.failed = 0)

\* C2 witness: a batch of two of which one was saved and one failed.
C2_Witness ==
    \E i \in Slots :
        /\ call[i].result.set
        /\ ParsesToList(call[i].memories)
        /\ call[i].result.saved = 1
        /\ call[i].result.failed = 1

\* C3: once process_memories has returned for a batch: if add_memory is
\* bound and the user and request handles are present, every fact (str
\* element) of the batch went to the Rich adapter, in order, once, and none
\* to the Direct adapter; otherwise, if the raw user id is present, every
\* fact went to the Direct adapter with that id, in order, once, and none to
\* the Rich adapter.  At no time has one call used both adapters.
C3_RoutingRule ==
    \A i \in Slots :
        LET f == call[i]
            rich == Events(log[i], {"rich"}, "outlet")
            api == Events(log[i], {"rich", "query", "add"}, "outlet")
            db == Events(log[i], {"db"}, "outlet")
        IN /\ (rich = <<>> \/ db = <<>>)
           /\ (f.result.set /\ ParsesToList(f.memories))
              => IF add_memory /\ f.user_obj # None /\ f.request # None
                 THEN /\ Texts(rich) = Texts(StrItems(f.memories))
                      /\ db = <<>>
                 ELSE IF f.user_id # ""
                 THEN /\ Texts(db) = Texts(StrItems(f.memories))
                      /\ \A k \in 1..Len(db) : db[k].user_id = f.user_id
                      /\ api = <<>>
                 ELSE TRUE

\* C3 witness: a batch of two facts went through the Rich adapter, and the
\* first of them failed there.
C3_Witness ==
    \E i \in Slots :
        /\ call[i].result.set
        /\ call[i].result.failed >= 1
        /\ Len(Events(log[i], {"rich"}, "outlet")) = 2
        /\ Len(Events(log[i], {"add"}, "outlet")) = 1

\* C4 as stated: when neither routing condition holds, process_memories
\* calls no adapter and returns (false, 0, len(batch)).
C4_NoStorageAborts_AsStated ==
    \A i \in Slots :
        LET f == call[i] IN
        (/\ f.result.set
         /\ ParsesToList(f.memories)
         /\ ~(add_memory /\ f.user_obj # None /\ f.request # None)
         /\ f.user_id = "")
        => /\ f.result = Result(FALSE, 0, Len(literal_eval(f.memories).items))
           /\ Events(log[i], StoreOps, "outlet") = <<>>

\* C4 amended: when neither routing condition holds, process_memories calls
\* no adapter and returns saved_count = 0 and failed_count = len(batch);
\* overall_success is false for every batch that is not empty (for the empty
\* batch the loop never runs and the result is (true, 0, 0)).
C4_NoStorageAborts ==
    \A i \in Slots :
        LET f == call[i]
            n == Len(literal_eval(f.memories).items)
        IN (/\ f.result.set
            /\ ParsesToList(f.memories)
            /\ ~(add_memory /\ f.user_obj # None /\ f.request # None)
            /\ f.user_id = "")
           => /\ f.result.saved = 0
              /\ f.result.failed = n
              /\ f.result.success <=> (n = 0)
              /\ Events(log[i], StoreOps, "outlet") = <<>>

\* C4 witness: a batch of two facts was aborted for want of a storage
\* method although the rich API is bound (the handles were missing).
C4_Witness ==
    \E i \in Slots :
        /\ call[i].result.set
        /\ add_memory
        /\ call[i].user_id = ""
        /\ call[i].user_obj = None
        /\ IsNonEmptyStrList(call[i].memories)
        /\ Len(literal_eval(call[i].memories).items) = 2
        /\ call[i].result = Result(FALSE, 0, 2)

\* The smallest of a non-empty sequence of distances.
Nearest(distances) ==
    CHOOSE d \in {distances[k] : k \in 1..Len(distances)} :
        \A k \in 1..Len(distances) : d <= distances[k]

\* The query response names at least one neighbour.
HasNeighbour(related) ==
    related.kind = "distances" /\ related.distances # <<>>

\* The query returned, and its response is of the expected shape with no
\* neighbour in it (nothing similar is stored yet).
NoNeighbour(related) ==
    \/ related.kind \in {"falsy", "no_distances"}
    \/ related.kind = "distances" /\ related.distances = <<>>

AddCalls(l) == Len(Events(l, {"add"}, "outlet"))

\* C5: in _store_memory_with_api, when query_memory returns for a fact with
\* nearest neighbour distance d and t = related_memories_dist: if d < t,
\* add_memory is not called and the fact is counted saved; if d >= t, or the
\* response holds no neighbour, add_memory is called, once, with that fact.
\* add_memory is never called more often than once per fact handed to the
\* adapter.
C5_DedupThreshold ==
    [][\A i \in Slots :
         /\ AddCalls(log[i]) <= Len(Events(log[i], {"rich"}, "outlet"))
         /\ \A related \in QueryResults :
              QueryReturns(i, related) =>
                LET item == literal_eval(call[i].memories).items[call[i].idx]
                    d == Nearest(related.distances)
                IN /\ (HasNeighbour(related) /\ d < related_memories_dist)
                      => /\ AddCalls(log'[i]) = AddCalls(log[i])
                         /\ call'[i].pc # "await_add"
                         /\ call'[i].saved = call[i].saved + 1
                   /\ (\/ HasNeighbour(related) /\ d >= related_memories_dist
                       \/ NoNeighbour(related))
                      => /\ call'[i].pc = "await_add"
                         /\ log'[i] = Append(log[i],
                                Ev("add", "outlet", item.text, "", 0, 0))
      ]_vars

\* C5 witness: a batch of two facts went through the Rich adapter with no
\* failure and a single add_memory call: one fact was skipped as a
\* duplicate and counted saved, the other was inserted.
C5_Witness ==
    \E i \in Slots :
        /\ call[i].result = Result(TRUE, 2, 0)
        /\ Len(Events(log[i], {"query"}, "outlet")) = 2
        /\ AddCalls(log[i]) = 1

\* C6 as stated: in the Rich adapter, whenever query_memory raises a
\* structural error or returns a response of unexpected shape (fewer fields
\* than expected, a non-list where a list is expected), add_memory is still
\* called for that fact.
C6_DedupFailureStillStores_AsStated ==
    [][\A i \in Slots : \A related \in QueryResults :
         (/\ related.kind \in {"raise_structural", "short", "bad_shape"}
          /\ QueryReturns(i, related))
         => /\ call'[i].pc = "await_add"
            /\ AddCalls(log'[i]) = AddCalls(log[i]) + 1
      ]_vars

\* The events of the Live Path in a history: the user lookup, the
\* extraction request, the store calls and the summary notification made by
\* outlet.
LiveEvents(l) ==
    SelectSeq(l, LAMBDA e :
        /\ e.by = "outlet"
        /\ \/ e.op \in {"get_user_by_id", "extract"} \cup StoreOps
           \/ /\ e.op = "emit"
              /\ e.text # "Auto-memory: running in direct DB mode (limited functionality)")

Spawns(l) == Events(l, {"spawn"}, "outlet")

\* The event of the outlet call of slot i carries a chat_id and a messages
\* list and neither user nor request context.
BackgroundShape(i) ==
    /\ ~call[i].body.none
    /\ call[i].body.has_chat_id
    /\ call[i].body.has_messages
    /\ call[i].user.none
    /\ call[i].request = None

\* C7 as stated: with the pipeline enabled, every event that carries a
\* chat_id and a messages list and has no user and no request context has a
\* background task spawned for it and is never processed on the Live Path.
C7_BackgroundRouting_AsStated ==
    \A i \in Slots :
        (valves.enabled /\ Classified(i) /\ BackgroundShape(i))
        => /\ Len(Spawns(log[i])) = 1
           /\ task[i].pc # "idle"
           /\ LiveEvents(log[i]) = <<>>

\* C7 amended: with the pipeline enabled, every event that carries a chat_id
\* and a messages list and has no user and no request context is never
\* processed on the Live Path and is returned as it came; a background task
\* is spawned for it, with its chat_id and messages, exactly when its
\* messages list is not empty.
C7_BackgroundRouting ==
    \A i \in Slots :
        (valves.enabled /\ Classified(i) /\ BackgroundShape(i))
        => /\ LiveEvents(log[i]) = <<>>
           /\ call[i].returned /\ call[i].value = call[i].body
           /\ IF call[i].body.messages # <<>>
              THEN /\ Len(Spawns(log[i])) = 1
                   /\ task[i].pc # "idle"
                   /\ task[i].chat_id = call[i].body.chat_id
                   /\ task[i].messages = call[i].body.messages
              ELSE /\ Spawns(log[i]) = <<>>
                   /\ task[i].pc = "idle"

\* C7 witness: a background-shaped event with two turns was classified and
\* its task has gone on to ask for an extraction.
C7_Witness ==
    \E i \in Slots :
        /\ valves.enabled /\ Classified(i) /\ BackgroundShape(i)
        /\ Len(call[i].body.messages) = 2
        /\ task[i].pc = "await_extract"

\* C8 as stated: an event is classified to the Background Path only when it
\* lacks both user context and request context; an event that carries user
\* context and a non-empty turn list is processed on the Live Path (never
\* handed to a background task), also when it carries a chat_id and has no
\* request handle.
C8_BackgroundOnlyWithoutContext_AsStated ==
    \A i \in Slots :
        Classified(i) =>
            /\ (Spawns(log[i]) # <<>>)
               => (call[i].user.none /\ call[i].request = None)
            /\ (~call[i].user.none /\ ~call[i].body.none
                /\ call[i].body.messages # <<>>)
               => /\ Spawns(log[i]) = <<>>
                  /\ task[i].pc = "idle"

\* The event of the outlet call of slot i has user context and at least two
\* messages of which the second-to-last has role user.
LiveShape(i) ==
    LET messages == call[i].body.messages IN
    /\ ~call[i].user.none
    /\ ~call[i].body.none
    /\ Len(messages) >= 2
    /\ messages[Len(messages) - 1].role = "user"

\* C9 as stated, read in the code's favour (the per-user toggle is on, the
\* user dict has an id and the user lookup does not raise): with the
\* pipeline and auto-save enabled, every event with user context and at
\* least two messages whose second-to-last has role user triggers exactly
\* one extraction call, on the content of that message; every event of
\* neither this shape nor the Background shape makes no extraction call, no
\* store call and spawns no task.
C9_LiveExtraction_AsStated ==
    \A i \in Slots :
        LET messages == call[i].body.messages
            extracts == Events(log[i], {"extract"}, "outlet")
                        \o Events(log[i], {"extract"}, "task")
            lookups == Events(log[i], {"get_user_by_id"}, "outlet")
        IN (valves.enabled /\ valves.auto_save_user /\ Classified(i))
           => /\ (/\ LiveShape(i)
                  /\ call[i].user.enabled
                  /\ call[i].user.has_id
                  /\ (lookups # <<>> => call[i].pc # "returned"
                                        \/ call[i].memories # Unbound)
                  /\ call[i].returned
                  /\ task[i].pc \in {"idle", "done"})
                 => /\ Len(extracts) = 1
                    /\ extracts[1].text = messages[Len(messages) - 1].content
              /\ (~LiveShape(i) /\ ~BackgroundShape(i))
                 => /\ extracts = <<>>
                    /\ Events(log[i], StoreOps, "outlet") = <<>>
                    /\ Events(log[i], StoreOps, "task") = <<>>
                    /\ Spawns(log[i]) = <<>>

\* C10: when the global enabled toggle is off, outlet returns the event it
\* was given and does nothing else: no extraction request, no task spawned,
\* no store call, no notification (the degraded-mode warning included), for
\* every event shape.
C10_DisabledPassThrough ==
    ~valves.enabled =>
        /\ ~_warned_direct_mode
        /\ \A i \in Slots :
             call[i].entry = "outlet"
             => /\ call[i].pc = "returned"
                /\ call[i].returned /\ ~call[i].raised
                /\ call[i].value = call[i].body
                /\ call[i].memories = Unbound
                /\ log[i] = <<>>
                /\ task[i] = IdleTask

\* C10 witness: with the toggle off, outlet has returned an event of the
\* Background shape with two turns, in direct DB mode with an emitter at
\* hand.
C10_Witness ==
    \E i \in Slots :
        /\ ~valves.enabled
        /\ valves.auto_save_user
        /\ DIRECT_DB_MODE
        /\ call[i].entry = "outlet"
        /\ call[i].returned
        /\ call[i].emitter # None
        /\ BackgroundShape(i)
        /\ Len(call[i].body.messages) = 2

\* The collaborator failures of the Live Path in a history: of the
\* extractor, the validator, the user lookup, an adapter or the status sink.
LiveFaults(l) ==
    SelectSeq(l, LAMBDA e :
        /\ e.by = "outlet"
        /\ \/ /\ e.op = "fault"
              /\ e.text \in {"extractor", "validator", "user lookup", "user id",
                             "query_memory", "add_memory", "store", "status sink"}
           \/ e.op = "db" /\ e.n = 0)

\* C11: on the Live Path, whatever fails (the extractor, the validator, the
\* user lookup, the storage router, an adapter, the status sink), outlet
\* raises nothing, and when it has returned it has returned the body it was
\* given.
C11_LivePathContainsFailures ==
    \A i \in Slots :
        (/\ call[i].entry = "outlet"
         /\ \/ LiveFaults(log[i]) # <<>>
            \/ call[i].result.set /\ ~call[i].result.success)
        => /\ ~call[i].raised
           /\ call[i].pc = "returned"
              => call[i].returned /\ call[i].value = call[i].body

\* C11 witness: an outlet call has returned after add_memory raised for a
\* fact and the status sink raised on the summary.
C11_Witness ==
    \E i \in Slots :
        /\ call[i].entry = "outlet"
        /\ call[i].pc = "returned"
        /\ \E k \in 1..Len(log[i]) : log[i][k] = Fault("outlet", "add_memory")
        /\ \E k \in 1..Len(log[i]) : log[i][k] = Fault("outlet", "status sink")

\* C12: whatever is raised inside a background task (by the turn scan, the
\* resolver, the extractor, the validator, the direct store, sqlite3 errors
\* and others), the task ends
\* normally: no exception leaves it, and the outlet call that spawned it has
\* returned its body and is left as it was.
C12_TaskContainsFailures ==
    \A i \in Slots :
        /\ ~task[i].raised
        /\ task[i].pc # "idle"
           => /\ call[i].returned /\ ~call[i].raised
              /\ call[i].value = call[i].body
        /\ (\E k \in 1..Len(log[i]) :
               /\ log[i][k].by = "task"
               /\ log[i][k].op = "fault"
               /\ log[i][k].text \in {"turn", "resolver", "validator", "store"})
           => task[i].pc = "done"

\* C12 witness: a task has ended after an element of the turn list that is
\* not a dict made the scan raise: the exception reached
\* _safe_process_completed_chat.
C12_Witness ==
    \E i \in Slots :
        /\ task[i].pc = "done"
        /\ \E k \in 1..Len(log[i]) : log[i][k] = Fault("task", "turn")

\* C13: a background task stores through the Direct Store Adapter only: it
\* never calls query_memory or add_memory, also when the rich memory API is
\* bound; the facts of an accepted list go to _save_memory_to_db, in order,
\* from the first one on.
C13_TaskDirectOnly ==
    \A i \in Slots :
        /\ Events(log[i], {"rich", "query", "add"}, "task") = <<>>
        /\ (task[i].pc = "done" /\ _is_valid_memory_list(task[i].memories) = "True")
           => LET db == Events(log[i], {"db"}, "task") IN
              /\ db # <<>>
              /\ Len(db) <= Len(StrItems(task[i].memories))
              /\ Texts(db) = SubSeq(Texts(StrItems(task[i].memories)), 1, Len(db))

\* C13 witness: with the rich API bound, a task has inserted a row through
\* the Direct adapter.
C13_Witness ==
    \E i \in Slots :
        /\ add_memory
        /\ task[i].pc = "done"
        /\ \E k \in 1..Len(log[i]) :
             log[i][k].op = "db" /\ log[i][k].by = "task" /\ log[i][k].n > 0

\* outlet has classified the event of slot i as a completed chat.
BackgroundClassified(i) ==
    /\ Classified(i)
    /\ is_chat_completed(call[i].user, call[i].request, call[i].body)

AllEmits(l) == SelectSeq(l, LAMBDA e : e.op = "emit")

\* C14 as stated: handling an event classified to the Background Path never
\* invokes the status sink, neither in the outlet call nor in the task.
C14_BackgroundSilent_AsStated ==
    \A i \in Slots :
        BackgroundClassified(i) => AllEmits(log[i]) = <<>>

\* C14 amended: handling an event classified to the Background Path emits
\* no summary status, and the task it spawns never calls the status sink;
\* the only notification the outlet call can emit is the degraded-mode
\* warning, before the classification, in direct DB mode with an emitter at
\* hand.
C14_BackgroundSilent ==
    \A i \in Slots :
        BackgroundClassified(i) =>
            /\ Events(log[i], {"emit"}, "task") = <<>>
            /\ \A k \in 1..Len(log[i]) :
                 log[i][k].op = "emit" =>
                    /\ k = 1
                    /\ log[i][k].text =
                         "Auto-memory: running in direct DB mode (limited functionality)"
                    /\ DIRECT_DB_MODE /\ _warned_direct_mode
                    /\ call[i].emitter # None

\* C14 witness: in direct DB mode the outlet call of a background event
\* emitted the warning, and its task has stored a fact without a word.
C14_Witness ==
    \E i \in Slots :
        /\ BackgroundClassified(i)
        /\ Len(AllEmits(log[i])) = 1
        /\ task[i].pc = "done"
        /\ \E k \in 1..Len(log[i]) :
             log[i][k].op = "db" /\ log[i][k].by = "task" /\ log[i][k].n > 0

\* The indices of the user-authored turns of a turn list.
UserTurns(messages) ==
    {j \in 1..Len(messages) : is_dict(messages[j]) /\ messages[j].role = "user"}

Highest(S) == CHOOSE j \in S : \A k \in S : k <= j

\* The task of slot i is past the resolver and has found the owner.
OwnerFound(i) ==
    /\ task[i].pc \in {"await_extract", "done"}
    /\ task[i].user_id # ""

\* C15 as stated: in a background task, when the owner is found and
\* auto-save is on, for every non-empty list of (well-formed) turns that
\* holds a user-authored turn the extractor is called on the content of the
\* last one, and on no other; without a user-authored turn nothing is
\* extracted.
C15_LastUserTurn_AsStated ==
    \A i \in Slots :
        LET m == task[i].messages
            extracts == Events(log[i], {"extract"}, "task")
        IN (/\ valves.auto_save_user
            /\ OwnerFound(i)
            /\ m # <<>>
            /\ \A j \in 1..Len(m) : is_dict(m[j]))
           => IF UserTurns(m) # {}
              THEN Texts(extracts) = <<m[Highest(UserTurns(m))].content>>
              ELSE extracts = <<>>

\* C15 amended: in a background task, when the owner is found and auto-save
\* is on, the extractor is called, once, on the content of the last
\* user-authored turn, when the list has at least two turns, the scan from
\* the end reaches a user-authored turn before any element that is not a
\* dict, and that turn's content is not empty; in every other case nothing
\* is extracted.
C15_LastUserTurn ==
    \A i \in Slots :
        LET m == task[i].messages
            extracts == Events(log[i], {"extract"}, "task")
            last == Highest(UserTurns(m))
        IN (valves.auto_save_user /\ OwnerFound(i))
           => IF /\ Len(m) >= 2
                 /\ UserTurns(m) # {}
                 /\ \A j \in 1..Len(m) : j > last => is_dict(m[j])
                 /\ m[last].content # ""
              THEN Texts(extracts) = <<m[last].content>>
              ELSE extracts = <<>>

\* C15 witness: a task asked for the extraction of the second of two user
\* turns.
C15_Witness ==
    \E i \in Slots :
        /\ OwnerFound(i)
        /\ valves.auto_save_user
        /\ Len(task[i].messages) = 2
        /\ UserTurns(task[i].messages) = {1, 2}
        /\ task[i].messages[1].content = ""
        /\ Len(Events(log[i], {"extract"}, "task")) = 1

\* _get_user_id_for_chat has three outcomes: found (an identifier, no
\* error), not found (no identifier, no error) and store error (no
\* identifier, an error); the error is reported exactly when sqlite3
\* raised; on not-found and on store error the task ends without an
\* extraction request, a store call or a row.
C16_Outcomes ==
    \A i \in Slots :
        task[i].pc \in {"await_extract", "done"} =>
            LET sqlite_raised ==
                    \E k \in 1..Len(log[i]) : log[i][k] = Fault("task", "resolver")
            IN /\ \A resolve \in ResolveResults :
                    LET r == _get_user_id_for_chat(task[i].chat_id, resolve) IN
                    /\ r.error # "" <=> resolve = "sqlite3.Error"
                    /\ r.user_id # "" <=> resolve = "ok"
                    /\ resolve = "ok" => r.user_id = chat[task[i].chat_id]
               /\ sqlite_raised <=> task[i].error # ""
               /\ task[i].error # "" => task[i].user_id = ""
               /\ task[i].user_id = ""
                  => /\ task[i].pc = "done"
                     /\ task[i].memories = Unbound
                     /\ Events(log[i], {"extract"} \cup StoreOps, "task") = <<>>

\* The step in which a task learns that its chat has no owner, or that the
\* store failed, touches nothing but that task and its history.
C16_OthersUnaffected ==
    \A i \in Slots :
        (/\ task[i].pc = "sleeping"
         /\ task'[i].pc # "sleeping"
         /\ task'[i].user_id = "")
        => /\ UNCHANGED <<now, valves, DIRECT_DB_MODE, _warned_direct_mode,
                          chat, memory, connections, call>>
           /\ \A j \in Slots \ {i} : task'[j] = task[j] /\ log'[j] = log[j]

Inserts(l) == SelectSeq(l, LAMBDA e : e.op = "db" /\ e.n > 0)

\* C17: the Direct Store Adapter does not deduplicate: every successful
\* _save_memory_to_db call, whatever the table already holds, adds one row
\* with the user id and content it was given; the rows have distinct ids,
\* each has created_at <= updated_at, and a row inserted later has
\* timestamps that are not smaller.
C17_NoDedup ==
    /\ \A j, k \in 1..Len(memory) :
          /\ memory[j].created_at <= memory[j].updated_at
          /\ j < k => /\ memory[j].id # memory[k].id
                      /\ memory[j].created_at <= memory[k].created_at
                      /\ memory[j].updated_at <= memory[k].updated_at
    /\ \A i \in Slots :
          LET ins == Inserts(log[i]) IN
          /\ Len(ins) <= Len(memory)
          /\ \A k \in 1..Len(ins) :
                \E j \in 1..Len(memory) :
                    /\ memory[j].id = ins[k].n
                    /\ memory[j].user_id = ins[k].user_id
                    /\ memory[j].content = ins[k].text
                    /\ memory[j].created_at = ins[k].m
                    /\ \A h \in 1..Len(ins) : h # k => ins[h].n # ins[k].n

\* C17 witness: the same content was stored twice for the same user, the
\* second time a second later: two rows.
C17_Witness ==
    /\ Len(memory) = Len(HostRows) + 2
    /\ memory[2].user_id = memory[3].user_id
    /\ memory[2].content = memory[3].content
    /\ memory[2].content = memory[1].content
    /\ memory[2].id # memory[3].id
    /\ memory[2].created_at < memory[3].created_at

\* C18 as stated: every row of the memory table has a non-empty content and
\* a non-empty user_id.
C18_RecordsWellFormed_AsStated ==
    \A k \in 1..Len(memory) :
        memory[k].content # "" /\ memory[k].user_id # ""

\* The store failures of the Storage Router in a history: a
\* _save_memory_to_db call that inserted nothing, an add_memory or
\* query_memory call that raised.
StoreFailures(l) ==
    SelectSeq(l, LAMBDA e :
        /\ e.by = "outlet"
        /\ \/ e.op = "db" /\ e.n = 0
           \/ e.op = "fault" /\ e.text \in {"query_memory", "add_memory"})

\* process_memories has run its loop to the end for the call of slot i.
RouterFinished(i) ==
    /\ call[i].result.set
    /\ ParsesToList(call[i].memories)
    /\ \/ StrItems(call[i].memories) = <<>>
       \/ UseRichApi(call[i])
       \/ UseDirectDb(call[i])

\* C19: when process_memories has run through a batch, its failed count is
\* the number of store calls that failed (sqlite3 errors of the Direct
\* adapter, failures of the Rich adapter) plus the number of non-str
\* elements, overall_success is false when there is any, and no exception
\* has left process_memories; while the loop runs the store failures so far
\* are counted as well.
C19_StoreErrorsCounted ==
    \A i \in Slots :
        LET f == call[i]
            items == literal_eval(f.memories).items
            nonstr == Len(items) - Len(StrItems(f.memories))
            failures == Len(StoreFailures(log[i]))
        IN /\ RouterFinished(i)
              => /\ f.result.failed = failures + nonstr
                 /\ f.result.saved = Len(items) - f.result.failed
                 /\ failures > 0 => ~f.result.success
                 /\ ~f.raised
           /\ failures > 0 => ~f.raised /\ f.failed >= failures

\* C19 witness: of a batch of two facts sent to the Direct adapter one was
\* inserted and the other met a sqlite3 error; process_memories returned
\* (False, 1, 1).
C19_Witness ==
    \E i \in Slots :
        /\ RouterFinished(i)
        /\ call[i].result = Result(FALSE, 1, 1)
        /\ Len(Events(log[i], {"db"}, "outlet")) = 2
        /\ Len(StoreFailures(log[i])) = 1
        /\ \A k \in 1..Len(log[i]) : log[i][k] # Fault("outlet", "store")

\* The store attempts of a history made by `by`: one per fact handed to an
\* adapter.
Attempts(l, by) == Events(l, {"rich", "db"}, by)

\* C20 as stated: each fact of a batch is attempted, on the Live Path and on
\* the Background Path: once the batch has been processed, every fact of it
\* has been handed to an adapter, in order, whatever failed before it.
C20_EachFactAttempted_AsStated ==
    \A i \in Slots :
        /\ (RouterFinished(i) /\ StrItems(call[i].memories) # <<>>)
           => Texts(Attempts(log[i], "outlet"))
                = Texts(StrItems(call[i].memories))
        /\ (task[i].pc = "done" /\ _is_valid_memory_list(task[i].memories) = "True")
           => Texts(Attempts(log[i], "task"))
                = Texts(StrItems(task[i].memories))

\* The HTTP requests of the extractor in a history, by whom they were made.
Posts(l, by) == Events(l, {"post"}, by)

C22_NoRetry ==
    \A i \in Slots :
        LET calls == SelectSeq(log[i], LAMBDA e : e.op = "extract")
            posts == SelectSeq(log[i], LAMBDA e : e.op = "post")
        IN /\ Len(calls) <= 1
           /\ Len(posts) <= Len(calls)
           /\ \A k \in 1..Len(posts) : posts[k].by = calls[k].by
           /\ (call[i].pc # "await_extract" /\ task[i].pc # "await_extract")
              => Len(posts) = Len(calls)

\* C22 witness: a background task's request was rate limited (429); the
\* task is done and its one request is the only one.
C22_Witness ==
    \E i \in Slots :
        /\ task[i].pc = "done"
        /\ Len(SelectSeq(log[i], LAMBDA e : e.op = "post")) = 1
        /\ Posts(log[i], "task")[1].user_id = "429"

\* The summary notifications of outlet in a history: every status it sent
\* but the degraded-mode warning.
Summaries(l) ==
    SelectSeq(l, LAMBDA e :
        /\ e.op = "emit" /\ e.by = "outlet"
        /\ e.text # "Auto-memory: running in direct DB mode (limited functionality)")

\* C23 as stated: when outlet has returned from an event for which it
\* called the extractor, it has emitted exactly one summary if the user has
\* not disabled status messages (and an emitter was given), also when the
\* extractor answered "[]", and none if the user has disabled them.
C23_OneSummary_AsStated ==
    \A i \in Slots :
        (/\ call[i].pc = "returned"
         /\ Events(log[i], {"extract"}, "outlet") # <<>>)
        => IF call[i].user.show_status /\ call[i].emitter # None
           THEN Len(Summaries(log[i])) = 1
           ELSE Summaries(log[i]) = <<>>

\* C24 as stated: every _save_memory_to_db call opens a connection of its
\* own, and once the call has returned (or raised) no connection it opened
\* is open.
C24_ConnectionsClosed_AsStated ==
    /\ \A i \in Slots :
          Len(SelectSeq(log[i], LAMBDA e : e.op = "connect"))
            = Len(SelectSeq(log[i], LAMBDA e : e.op = "db"))
    /\ connections = 0

\* C25: the core only inserts into the memory table: in every step the rows
\* the table held are still there, in place and with every field as it was
\* (no update, no delete), and the host's chat table is as it was.
C25_InsertOnly ==
    [][/\ Len(memory') >= Len(memory)
       /\ SubSeq(memory', 1, Len(memory)) = memory
       /\ chat' = chat]_vars

\* C25 witness: the row the host's table held from the start is still its
\* first row after the same content was stored again for the same user by a
\* task that looked up the chat table.
C25_Witness ==
    /\ Len(memory) >= 2
    /\ memory[1] = HostRows[1]
    /\ memory[2].content = HostRows[1].content
    /\ memory[2].user_id = HostRows[1].user_id
    /\ chat = ChatTable
    /\ \E i \in Slots : Events(log[i], {"resolve"}, "task") # <<>>

\* C26: the Background Path is fire-and-forget: the outlet call that
\* spawns a task returns its body in the very step that creates it, when
\* the task has done nothing yet; every resolver lookup, extraction request
\* and store call of the task comes after that return.
C26_FireAndForget ==
    \A i \in Slots :
        /\ task[i].pc # "idle"
           => /\ call[i].pc = "returned"
              /\ call[i].returned
              /\ call[i].value = call[i].body
        /\ task[i].pc = "sleeping"
           => SelectSeq(log[i], LAMBDA e : e.by = "task") = <<>>
        /\ \A k \in 1..Len(log[i]) :
              log[i][k].by = "task"
              => /\ call[i].returned
                 /\ \E j \in 1..(k - 1) : log[i][j].op = "spawn"

\* C26 witness: outlet has returned and its task is still asleep: nothing
\* of the task has happened.
C26_Witness ==
    \E i \in Slots :
        /\ call[i].returned
        /\ task[i].pc = "sleeping"
        /\ Len(task[i].messages) = 2
        /\ Spawns(log[i]) # <<>>

\* ------------------------------------------------------------ C27
\* A step that is a call of _get_zdr_models, and one that is cleanup().
ZdrCall == last_call'.op = "_get_zdr_models" /\ wall' = wall
CleanupCall == last_call'.op = "cleanup" /\ wall' = wall
ZdrRequest == <<HttpGet("/endpoints/zdr")>>

\* C27, as the claim states it: after a successful fetch at time T0, every
\* call of _get_zdr_models before T0 + ZDR_CACHE_TTL returns the cached list
\* and issues no request; the first call at or after T0 + ZDR_CACHE_TTL
\* issues a request and replaces the cache; after cleanup() the next call
\* fetches again.
C27_CachedForTtl_AsStated ==
    [][/\ ZdrCall /\ fetched.some /\ wall < fetched.at + ZDR_CACHE_TTL
          => /\ last_call'.requests = <<>>
             /\ last_call'.zdr = fetched.list
       /\ ZdrCall /\ fetched.some /\ ~fetched.late
                  /\ wall >= fetched.at + ZDR_CACHE_TTL
          => /\ last_call'.requests = ZdrRequest
             /\ _zdr_cache_time' = wall
       /\ ZdrCall /\ ~fetched.some => last_call'.requests = ZdrRequest
       /\ CleanupCall => ~fetched'.some /\ _zdr_cache' = NoCache]_vars

\* C27, amended: after a successful fetch of a list that is not empty at
\* time T0, every call of _get_zdr_models before T0 + ZDR_CACHE_TTL returns
\* that list, issues no request and leaves the cache as it is; every other
\* call (at or after T0 + ZDR_CACHE_TTL, after a fetch of an empty list,
\* after cleanup(), before any fetch) issues one request to the ZDR
\* endpoint, and replaces the cache and its time when the request succeeds;
\* when it fails the call returns the list in the cache (the empty list if
\* there is none) and leaves the cache and its time as they are.  cleanup()
\* empties the cache.
C27_CachedForTtl ==
    [][/\ ZdrCall /\ fetched.some /\ fetched.list # <<>>
                  /\ wall < fetched.at + ZDR_CACHE_TTL
          => /\ last_call'.requests = <<>>
             /\ last_call'.zdr = fetched.list
             /\ UNCHANGED <<_zdr_cache, _zdr_cache_time>>
       /\ ZdrCall /\ ~(fetched.some /\ fetched.list # <<>>
                       /\ wall < fetched.at + ZDR_CACHE_TTL)
          => /\ last_call'.requests = ZdrRequest
             /\ last_call'.fetch \in {"ok", "failed"}
             /\ last_call'.fetch = "ok"
                  => /\ _zdr_cache' = Cached(last_call'.zdr)
                     /\ _zdr_cache_time' = wall
             /\ last_call'.fetch = "failed"
                  => /\ UNCHANGED <<_zdr_cache, _zdr_cache_time>>
                     /\ last_call'.zdr = IF _zdr_cache.none THEN <<>>
                                         ELSE _zdr_cache.list
       /\ CleanupCall => _zdr_cache' = NoCache /\ _zdr_cache_time' = 0]_vars

\* A call at or after T0 + ZDR_CACHE_TTL whose request failed has returned
\* the list fetched at T0, and the cache is still the one of T0.
C27_Witness ==
    /\ last_call.op = "_get_zdr_models"
    /\ last_call.fetch = "failed"
    /\ last_call.zdr # <<>>
    /\ fetched.late
    /\ wall >= _zdr_cache_time + ZDR_CACHE_TTL
    /\ _zdr_cache = Cached(last_call.zdr)

\* ------------------------------------------------------------ C28
\* The ids of a list, and the one-entry error list.
IdSet(list) == {list[k] : k \in 1..Len(list)}
IsErrorList(entries) == Len(entries) = 1 /\ entries[1].id = "error"

Forwarded ==
    SelectSeq(last_call.requests,
              LAMBDA q : q.method = "POST" /\ q.url = "/chat/completions")

\* C29: with ENABLE_ZDR_ENFORCEMENT on, every request pipe() forwards to
\* the chat-completions endpoint, streaming or not, carries a provider dict
\* with zdr = true, whatever provider settings the body had, and every
\* other provider key of the body with the value the body gave it.
C29_ZdrEnforced ==
    last_call.op = "pipe" /\ pipe_valves.ENABLE_ZDR_ENFORCEMENT =>
        \A k \in 1..Len(Forwarded) :
            LET payload == Forwarded[k].payload
                given == last_call.body.provider.dict
            IN /\ payload.provider = "dict"
               /\ "zdr" \in DOMAIN payload.settings
               /\ payload.settings["zdr"] = "true"
               /\ \A key \in DOMAIN given \ {"zdr"} :
                     /\ key \in DOMAIN payload.settings
                     /\ payload.settings[key] = given[key]
               /\ Forwarded[k].stream = last_call.body.stream

\* pipe() has forwarded a streaming request for a body whose provider dict
\* said zdr = false and named an order.
C29_Witness ==
    /\ last_call.op = "pipe"
    /\ pipe_valves.ENABLE_ZDR_ENFORCEMENT
    /\ last_call.body.stream
    /\ DOMAIN last_call.body.provider.dict = {"zdr", "order"}
    /\ last_call.body.provider.dict["zdr"] = "false"
    /\ Len(Forwarded) = 1
    /\ Forwarded[1].payload.settings["zdr"] = "true"
    /\ Forwarded[1].payload.settings["order"] = "x"

\* ------------------------------------------------------------ C30
\* No API key is configured: the valve is empty and OPENAI_API_KEY is unset.
NoKeyConfigured == pipe_valves.OPENROUTER_API_KEY = "" /\ OPENAI_API_KEY = ""

\* C30: with no API key configured, pipes() returns exactly one entry, with
\* id "error", pipe() returns an error string, and neither issues an HTTP
\* request; with a key, when _get_zdr_models has no model to give, pipes()
\* returns exactly one error entry.
C30_ErrorEntries ==
    /\ NoKeyConfigured /\ last_call.op = "pipes"
         => /\ last_call.result.kind = "entries"
            /\ IsErrorList(last_call.result.entries)
            /\ last_call.requests = <<>>
            /\ ~last_call.raised
    /\ NoKeyConfigured /\ last_call.op = "pipe"
         => /\ last_call.result.kind = "str"
            /\ last_call.result.error # ""
            /\ last_call.requests = <<>>
            /\ ~last_call.raised
    /\ ~NoKeyConfigured /\ last_call.op = "pipes" /\ last_call.zdr = <<>>
         => /\ last_call.result.kind = "entries"
            /\ IsErrorList(last_call.result.entries)

\* pipes() has been called with no key configured.
C30_Witness ==
    /\ NoKeyConfigured
    /\ last_call.op = "pipes"
    /\ last_call.result.entries = <<ErrorEntry("API Key not provided")>>
    /\ last_call.requests = <<>>
    /\ _zdr_cache = NoCache

\* ------------------------------------------------------------ C31
\* The (user_id, content) pairs of rows, and of the store calls of a
\* history that inserted a row.
Pairs(rows) == [k \in 1..Len(rows) |-> <<rows[k].user_id, rows[k].content>>]
StoredBy(l, by) ==
    LET stored == SelectSeq(Events(l, {"db"}, by), LAMBDA e : e.n > 0)
    IN [k \in 1..Len(stored) |-> <<stored[k].user_id, stored[k].text>>]
Added(old, new) == SubSeq(new, Len(old) + 1, Len(new))

\* The step in which the task of slot i runs its store loop.
TaskStores(i) == task[i].pc = "await_extract" /\ task'[i].pc = "done"

\* C31: whatever the other call and the other task are doing, the step in
\* which a task stores leaves every row of the table as it is and appends
\* exactly the rows the task stores on its own: one row per store call of
\* its own that sqlite3 completed, under the task's own user_id, with the
\* facts of the task's own validated list as contents, in order; the other
\* slot's call, task and history are untouched by the step.  A fact the
\* table holds already (from the host or from the other task) is inserted
\* again.
C31_NoCrossTaskInterference ==
    [][\A i \in ConcSlots :
         TaskStores(i) =>
            LET own == SubSeq(log'[i], Len(log[i]) + 1, Len(log'[i]))
                calls == Events(own, {"db"}, "task")
                facts == IF _is_valid_memory_list(task'[i].memories) = "True"
                         THEN literal_eval(task'[i].memories).items ELSE <<>>
            IN /\ SubSeq(memory', 1, Len(memory)) = memory
               /\ Pairs(Added(memory, memory')) = StoredBy(own, "task")
               /\ Len(calls) <= Len(facts)
               /\ \A k \in 1..Len(calls) :
                     /\ calls[k].text = facts[k].text
                     /\ calls[k].user_id = task[i].user_id
               /\ \A j \in ConcSlots \ {i} :
                     /\ call'[j] = call[j]
                     /\ task'[j] = task[j]
                     /\ log'[j] = log[j]]_vars

\* Two tasks running at once have extracted the same fact for the same
\* user, a fact the table held already, and each has inserted a row of its
\* own.
C31_Witness ==
    /\ Len(memory) = Len(HostRows) + 2
    /\ \A k \in 2..3 : /\ memory[k].user_id = memory[1].user_id
                       /\ memory[k].content = memory[1].content
    /\ memory[2].id # memory[3].id
    /\ \E i, j \in ConcSlots :
          /\ i # j
          /\ task[i].pc = "done" /\ task[j].pc = "done"
          /\ \E e \in 1..Len(log[i]) :
                log[i][e].op = "db" /\ log[i][e].by = "task"
                /\ log[i][e].n = memory[2].id
          /\ \E e \in 1..Len(log[j]) :
                log[j][e].op = "db" /\ log[j][e].by = "task"
                /\ log[j][e].n = memory[3].id
          /\ Len(Events(log[i], {"spawn"}, "outlet")) = 1
          /\ Len(Events(log[j], {"spawn"}, "outlet")) = 1

\* ------------------------------------------------------------ C32
\* The facts of a validated list, as texts.
FactsOf(memories) ==
    IF _is_valid_memory_list(memories) = "True"
    THEN {literal_eval(memories).items[k].text :
             k \in 1..Len(literal_eval(memories).items)}
    ELSE {}

\* The row a store call of the history inserted is in the table as the call
\* wrote it.
RowStored(e) ==
    e.n > 0 => \E k \in 1..Len(memory) :
                  /\ memory[k].id = e.n
                  /\ memory[k].user_id = e.user_id
                  /\ memory[k].content = e.text

\* C32: every store call of a background task is made under the user_id
\* the chat table holds for the chat_id of the event that spawned the task,
\* every store call of the Live Path through the Direct adapter under the
\* id of the event's user; the content is a fact of the validated list the
\* extractor gave for the selected user turn (the last user turn of the
\* event for a task, the second-to-last turn on the Live Path); and the row
\* inserted carries that user_id and that content.
C32_RightOwner ==
    \A i \in ConcSlots :
        LET messages == call[i].body.messages
            taskCalls == Events(log[i], {"db"}, "task")
            liveCalls == Events(log[i], {"db"}, "outlet")
            taskAsked == Events(log[i], {"extract"}, "task")
            liveAsked == Events(log[i], {"extract"}, "outlet")
        IN /\ \A k \in 1..Len(taskCalls) :
                 /\ task[i].chat_id = call[i].body.chat_id
                 /\ taskCalls[k].user_id = chat[call[i].body.chat_id]
                 /\ taskCalls[k].text \in FactsOf(task[i].memories)
                 /\ Len(taskAsked) = 1
                 /\ taskAsked[1].text =
                      messages[LastUserIndex(messages, Len(messages))].content
                 /\ RowStored(taskCalls[k])
           /\ \A k \in 1..Len(liveCalls) :
                 /\ ~call[i].user.none
                 /\ liveCalls[k].user_id = call[i].user.id
                 /\ liveCalls[k].text \in FactsOf(call[i].memories)
                 /\ Len(liveAsked) = 1
                 /\ liveAsked[1].text = messages[Len(messages) - 1].content
                 /\ RowStored(liveCalls[k])

\* The rich API is bound, the event of chat-2 came without user and request
\* handles, and its task has stored a fact about hiking for user-2, the
\* owner of chat-2, while the other slot's live event of user-1 stored one
\* for user-1.
C32_Witness ==
    /\ ~DIRECT_DB_MODE
    /\ \E i, j \in ConcSlots :
          /\ call[i].user.none /\ call[i].request = None
          /\ call[i].body.chat_id = "chat-2"
          /\ \E e \in 1..Len(log[i]), k \in 1..Len(memory) :
                /\ log[i][e].op = "db" /\ log[i][e].by = "task"
                /\ log[i][e].n = memory[k].id
                /\ memory[k].user_id = "user-2"
                /\ memory[k].content = "User enjoys hiking"
          /\ call[j].user.id = "user-1"
          /\ \E e \in 1..Len(log[j]), k \in 1..Len(memory) :
                /\ log[j][e].op = "db" /\ log[j][e].by = "outlet"
                /\ log[j][e].n = memory[k].id
                /\ memory[k].user_id = "user-1"

\* ------------------------------------------------------------ C33
\* Event k of the history of slot i comes after an event of the task with
\* one of the ops.
After(i, k, ops) ==
    \E j \in 1..(k - 1) : log[i][j].by = "task" /\ log[i][j].op \in ops

\* C33: a task that is still in its initial delay has called nothing; its
\* extraction request comes after its resolver lookup, and only when the
\* lookup returned an owner and no error; its store calls come after the
\* extraction request has returned, and only when the validator accepted
\* what the extractor returned.
C33_TaskStepsOrdered ==
    \A i \in Slots :
        /\ task[i].pc = "sleeping"
           => SelectSeq(log[i], LAMBDA e : e.by = "task") = <<>>
        /\ \A k \in 1..Len(log[i]) :
              log[i][k].by = "task" =>
                 /\ task[i].pc # "sleeping"
                 /\ log[i][k].op \in {"extract", "post"}
                    => /\ After(i, k, {"resolve"})
                       /\ task[i].user_id # ""
                       /\ task[i].user_id = chat[task[i].chat_id]
                       /\ task[i].error = ""
                       /\ \A e \in 1..Len(log[i]) :
                             log[i][e] # Fault("task", "resolver")
                 /\ log[i][k].op = "post" => After(i, k, {"extract"})
                 /\ log[i][k].op \in {"connect", "db"}
                    => /\ After(i, k, {"post"})
                       /\ task[i].pc = "done"
                       /\ _is_valid_memory_list(task[i].memories) = "True"

\* A task has gone through all its steps: lookup, extraction request, and a
\* store call that inserted a row.
C33_Witness ==
    \E i \in Slots :
        /\ task[i].pc = "done"
        /\ \E a, b, c, d \in 1..Len(log[i]) :
              /\ a < b /\ b < c /\ c < d
              /\ log[i][a].by = "task" /\ log[i][a].op = "resolve"
              /\ log[i][b].by = "task" /\ log[i][b].op = "extract"
              /\ log[i][c].by = "task" /\ log[i][c].op = "post"
              /\ log[i][d].by = "task" /\ log[i][d].op = "db"
              /\ log[i][d].n > 0

\* ------------------------------------------------------------ C34
\* The summary of slot i, read against the router's result: "Saved N" iff
\* failed_count = 0, then with N = saved_count >= 1; "Saved N/M (some
\* failed)" iff saved_count > 0 and failed_count > 0, then with N =
\* saved_count and M = saved_count + failed_count; "nothing to save" iff
\* saved_count = 0.
SummaryMatches(e, result) ==
    /\ result.set
    /\ e.text \in {"Saved N memory/memories", "Saved N/M memories (some failed)",
                   "Memory extraction found nothing to save"}
    /\ e.text = "Saved N memory/memories" <=> result.failed = 0
    /\ e.text = "Saved N memory/memories"
         => e.n = result.saved /\ result.saved >= 1
    /\ e.text = "Saved N/M memories (some failed)"
         <=> result.saved > 0 /\ result.failed > 0
    /\ e.text = "Saved N/M memories (some failed)"
         => e.n = result.saved /\ e.m = result.saved + result.failed
    /\ e.text = "Memory extraction found nothing to save" <=> result.saved = 0

\* The store attempts of the Live Path that precede event k of slot i.
AttemptsBefore(i, k) == Attempts(SubSeq(log[i], 1, k - 1), "outlet")

\* Event k of the history of slot i is a summary.
IsSummary(i, k) ==
    /\ log[i][k].op = "emit" /\ log[i][k].by = "outlet"
    /\ log[i][k].text # "Auto-memory: running in direct DB mode (limited functionality)"

\* C34, as the claim states it: a summary is emitted only after every fact
\* of the batch has been attempted, and its text is the one the router's
\* result determines.
C34_SummaryFromResult_AsStated ==
    \A i \in Slots : \A k \in 1..Len(log[i]) :
        IsSummary(i, k) =>
            /\ Len(AttemptsBefore(i, k)) = Len(literal_eval(call[i].memories).items)
            /\ SummaryMatches(log[i][k], call[i].result)

\* C34, amended: a summary is emitted only after the router has returned
\* its result, and its text is the one the result determines; the router
\* has then attempted every fact of the batch, except when neither adapter
\* is usable for the call: then it has attempted none, the result is
\* (false, 0, len(batch)) and the summary is "nothing to save".
C34_SummaryFromResult ==
    \A i \in Slots : \A k \in 1..Len(log[i]) :
        IsSummary(i, k) =>
            LET n == Len(literal_eval(call[i].memories).items) IN
            /\ _is_valid_memory_list(call[i].memories) = "True"
            /\ SummaryMatches(log[i][k], call[i].result)
            /\ call[i].result.saved + call[i].result.failed = n
            /\ IF UseRichApi(call[i]) \/ UseDirectDb(call[i])
               THEN Len(AttemptsBefore(i, k)) = n
               ELSE /\ AttemptsBefore(i, k) = <<>>
                    /\ call[i].result = Result(FALSE, 0, n)
                    /\ log[i][k].text = "Memory extraction found nothing to save"

\* Of a batch of two facts one was stored and one failed, and the summary
\* says "Saved 1/2 memories (some failed)".
C34_Witness ==
    \E i \in Slots : \E k \in 1..Len(log[i]) :
        /\ IsSummary(i, k)
        /\ log[i][k].text = "Saved N/M memories (some failed)"
        /\ log[i][k].n = 1 /\ log[i][k].m = 2
        /\ Len(AttemptsBefore(i, k)) = 2
        /\ call[i].result = Result(FALSE, 1, 1)

\* ------------------------------------------------------------ C35
\* C35: with the auto-save toggle off, an outlet call makes no extraction
\* request and no store call, and neither does the task it may spawn: the
\* call returns the event (after the degraded-mode warning, if one is due)
\* with no summary, and the task ends with its resolver lookup.
C35_AutoSaveOff ==
    ~valves.auto_save_user =>
        \A i \in Slots :
            call[i].entry = "outlet" =>
                /\ Events(log[i], {"extract", "post", "connect"} \cup StoreOps,
                          "outlet") = <<>>
                /\ Events(log[i], {"extract", "post", "connect"} \cup StoreOps,
                          "task") = <<>>
                /\ Summaries(log[i]) = <<>>
                /\ call[i].pc \in {"await_warn", "returned"}
                /\ call[i].memories = Unbound
                /\ ~call[i].raised
                /\ call[i].pc = "returned"
                   => call[i].returned /\ call[i].value = call[i].body
                /\ task[i].pc \in {"idle", "sleeping", "done"}
                /\ task[i].memories = Unbound
                /\ task[i].pc = "done"
                   => /\ Len(Events(log[i], {"resolve"}, "task")) = 1
                      /\ ~task[i].raised

\* With the toggle off, a task has found the owner of a chat whose two
\* turns end with what the user said, and has ended there; the pipeline
\* itself is enabled.
C35_Witness ==
    \E i \in Slots :
        /\ ~valves.auto_save_user
        /\ valves.enabled
        /\ task[i].pc = "done"
        /\ task[i].user_id = "user-1"
        /\ Len(task[i].messages) = 2
        /\ task[i].messages[2] = [role |-> "user", content |-> "I love hiking"]
        /\ call[i].returned

\* ------------------------------------------------------------ C36
\* C36: for an event whose user has turned the per-user enabled toggle
\* off, outlet itself (the Live Path) makes no extraction request and no
\* store call, emits no summary, and returns the event as it was given.
C36_UserDisabled ==
    \A i \in Slots :
        (call[i].entry = "outlet" /\ ~call[i].user.none /\ ~call[i].user.enabled)
        => /\ Events(log[i], {"extract", "post", "connect", "get_user_by_id"}
                             \cup StoreOps, "outlet") = <<>>
           /\ Summaries(log[i]) = <<>>
           /\ call[i].memories = Unbound
           /\ call[i].pc \in {"await_warn", "returned"}
           /\ ~call[i].raised
           /\ call[i].pc = "returned"
              => call[i].returned /\ call[i].value = call[i].body

\* With the pipeline and auto-save on, outlet has returned an event of the
\* Live shape (two turns, the first the user's, user and request handles
\* present) whose user has the toggle off: nothing was called.
C36_Witness ==
    \E i \in Slots :
        /\ valves.enabled /\ valves.auto_save_user
        /\ call[i].entry = "outlet"
        /\ call[i].returned
        /\ ~call[i].user.none /\ ~call[i].user.enabled
        /\ call[i].user.show_status
        /\ call[i].emitter # None
        /\ call[i].request # None
        /\ Len(call[i].body.messages) = 2
        /\ call[i].body.messages[1] = [role |-> "user", content |-> "I love hiking"]
        /\ task[i].pc = "idle"
        /\ ~DIRECT_DB_MODE
        /\ log[i] = <<>>

\* ------------------------------------------------------------ C37
\* The degraded-mode warnings in a history.
Warnings(l) ==
    SelectSeq(l, LAMBDA e :
        /\ e.op = "emit" /\ e.by = "outlet"
        /\ e.text = "Auto-memory: running in direct DB mode (limited functionality)")

\* At any moment the calls in flight hold at most one warning between
\* them, it was sent in direct DB mode and the flag is set; a call whose
\* warning the sink refused has gone on to classify its event (here: it
\* has spawned the task or asked the extractor) and has not raised.
C37_State ==
    /\ \A i, j \in ConcSlots :
          (Warnings(log[i]) # <<>> /\ Warnings(log[j]) # <<>>) => i = j
    /\ \A i \in ConcSlots :
          /\ Len(Warnings(log[i])) <= 1
          /\ Warnings(log[i]) # <<>> => DIRECT_DB_MODE /\ _warned_direct_mode
          /\ (\E k \in 1..Len(log[i]) : log[i][k] = Fault("outlet", "warning sink"))
             => /\ call[i].pc # "await_warn"
                /\ ~call[i].raised
                /\ \/ Spawns(log[i]) # <<>>
                   \/ Events(log[i], {"extract"}, "outlet") # <<>>

\* A step sends a warning only when the flag was not set, and sets it; the
\* flag, once set, stays set.
C37_Step ==
    /\ _warned_direct_mode => _warned_direct_mode'
    /\ \A i \in ConcSlots :
          Len(Warnings(log'[i])) > Len(Warnings(log[i]))
          => /\ DIRECT_DB_MODE
             /\ ~_warned_direct_mode
             /\ _warned_direct_mode'

\* C37: over any sequence and interleaving of outlet calls on one Filter
\* the degraded-mode warning is emitted at most once, only in direct DB
\* mode, and a status sink that fails on it does not keep the event from
\* being processed.
C37_WarnedOnce == []C37_State /\ [][C37_Step]_vars

\* In direct DB mode two outlet calls with an emitter are in flight: the
\* first one's warning was refused by the sink and its task was spawned all
\* the same, the second one sent no warning.
C37_Witness ==
    \E i, j \in ConcSlots :
        /\ i # j
        /\ DIRECT_DB_MODE
        /\ call[i].entry = "outlet" /\ call[j].entry = "outlet"
        /\ call[i].emitter # None /\ call[j].emitter # None
        /\ Len(Warnings(log[i])) = 1
        /\ \E k \in 1..Len(log[i]) : log[i][k] = Fault("outlet", "warning sink")
        /\ task[i].pc = "sleeping"
        /\ task[j].pc = "sleeping"
        /\ Warnings(log[j]) = <<>>

\* How the task of slot i ended, by its frame and its history.
ResolverError(i) == task[i].error # ""
OwnerNotFound(i) == task[i].error = "" /\ task[i].user_id = ""
TaskRaised(i) ==
    \E e \in 1..Len(log[i]) :
        log[i][e] \in {Fault("task", "turn"), Fault("task", "store")}
Extracted(i) == Events(log[i], {"extract"}, "task") # <<>>
NothingToExtract(i) ==
    /\ task[i].user_id # ""
    /\ ~Extracted(i)
    /\ ~TaskRaised(i)
ValidatorRejected(i) ==
    /\ Extracted(i)
    /\ task[i].memories # Unbound
    /\ _is_valid_memory_list(task[i].memories) # "True"
AllAttempted(i) ==
    /\ Extracted(i)
    /\ task[i].memories # Unbound
    /\ _is_valid_memory_list(task[i].memories) = "True"
    /\ Len(Events(log[i], {"db"}, "task")) = Len(StrItems(task[i].memories))
ListedOutcome(i) ==
    \/ ResolverError(i)
    \/ OwnerNotFound(i)
    \/ NothingToExtract(i)
    \/ ValidatorRejected(i)
    \/ AllAttempted(i)

\* Under fair scheduling of the tasks alone, every spawned task ends.
TaskTerminates ==
    \A i \in ConcSlots : (task[i].pc = "sleeping") ~> (task[i].pc = "done")

\* A task that has not ended can always take its next step, whatever the
\* other task and the calls are doing.
TaskNeverWaits ==
    \A i \in ConcSlots :
        task[i].pc \in {"sleeping", "await_extract"} => ENABLED TaskStep(i)

\* A task that has ended has one of the listed outcomes, or an exception
\* ended it and a handler logged it.
TaskOutcome ==
    \A i \in ConcSlots :
        task[i].pc = "done" => ListedOutcome(i) \/ TaskRaised(i)

\* C38: under fair scheduling of the tasks alone (the host sending no
\* further event and taking no result), the extraction request returning
\* or timing out, every spawned background task eventually ends; it ends
\* with resolver error, owner not found, nothing to extract, validator
\* rejection or all facts of the batch attempted, or with an exception that
\* a handler of the task caught and logged; and at no point does it wait
\* on another task or on the call that spawned it.
C38_TaskTerminates ==
    /\ TaskTerminates
    /\ []TaskOutcome
    /\ []TaskNeverWaits

\* C38 as stated: the five outcomes are the only ones.
C38_TaskTerminates_AsStated ==
    /\ TaskTerminates
    /\ [](\A i \in ConcSlots : task[i].pc = "done" => ListedOutcome(i))
    /\ []TaskNeverWaits

\* C38 witness: two tasks ran at once and both have ended, one with every
\* fact of its batch attempted, the other with an exception of the store
\* call logged.
C38_Witness ==
    \E i, j \in ConcSlots :
        /\ i # j
        /\ task[i].pc = "done"
        /\ AllAttempted(i)
        /\ StrItems(task[i].memories) # <<>>
        /\ task[j].pc = "done"
        /\ \E e \in 1..Len(log[j]) : log[j][e] = Fault("task", "store")
        /\ ~ListedOutcome(j)

====
